---- MODULE Spec2Model ----
(***************************************************************************)
(* comfyui-remote: the workflow-graph compiler (app/api/run/route.ts:      *)
(* stripIgnoredNodes, setPromptTexts, ensureClassTypes, buildPromptGraph), *)
(* the long-lived run route with its poll loop, the checkpointed status    *)
(* route and the history store.                                            *)
(***************************************************************************)
EXTENDS Integers, Sequences, FiniteSets, TLC

VARIABLES
    \* ---- compiler pipeline (working copy of one workflow graph) ----
    gNodes,     \* workflow.nodes of the working copy
    gLinks,     \* workflow.links of the working copy
    gpc,        \* position in the pipeline of the run route
    built,      \* the job description returned by buildPromptGraph
    \* ---- the run route (long-lived variant), one request ----
    now,        \* Date.now() of the server, in ms
    runPc,      \* position of the POST /api/run handler
    req,        \* the form fields of the run request
    submitted,  \* the job description posted to the backend's /prompt
    promptId,   \* the prompt_id the backend returned ("" before)
    pollStart,  \* start of pollForResult
    wakeAt,     \* when the loop's setTimeout fires
    loopCheck,  \* the last evaluation of the loop condition
    runResp,    \* the response of the run route
    \* ---- the render backend ----
    imageReady, \* the backend's history holds the job's image
    \* ---- the status route (checkpointed variant) and its caller ----
    statusStart,  \* the start value the caller sends (0: none sent)
    statusCheck,  \* the last evaluation of the timeout condition
    statusDid,    \* what the last status call did: found, download, save
    statusResp,   \* the response of the last status call
    \* ---- the history store ----
    history,    \* data/history.json
    outputs,    \* the files of data/outputs
    uuids,      \* randomUUID() values handed out so far
    saves,      \* the calls of saveImageToHistory that run concurrently
    \* ---- the workflow store ----
    workflowStore,  \* data/workflows.json
    runs,           \* the runs answered before the current one
    \* ---- the HTTP endpoints, one request at a time ----
    apiReq,         \* the last request: endpoint, cookie, parameters
    apiResp,        \* the HTTP status answered to it (0: none yet)
    backendSent,    \* the backend endpoints its handler sent requests to
    apiCalls,       \* requests handled so far
    \* ---- the dashboard page in the browser ----
    dash,           \* isRunning, pollTimer, the timers and fetches pending
    \* ---- extractImageFromBody on one response body ----
    exBody,     \* the parsed body of a history response
    exPid,      \* the job id passed as promptId ("" when none)
    exRun,      \* what extractImageFromBody of the run route returned
    exStatus,   \* what extractImageFromBody of the status route returned
    expc        \* "body" while the body arrives, "done" after both calls

graphVars == <<gNodes, gLinks, gpc, built>>

runVars ==
    <<runPc, req, submitted, promptId, pollStart, wakeAt, loopCheck, runResp>>

statusVars == <<statusStart, statusCheck, statusDid, statusResp>>

storeVars == <<history, outputs, uuids>>

extractVars == <<exBody, exPid, exRun, exStatus, expc>>

\* What the run route and the status route leave alone.
apiVars == <<apiReq, apiResp, backendSent, apiCalls>>

auxVars ==
    <<saves, exBody, exPid, exRun, exStatus, expc, apiReq, apiResp,
      backendSent, apiCalls, dash>>

\* Everything but the compiler pipeline.
restVars ==
    <<now, runPc, req, submitted, promptId, pollStart, wakeAt, loopCheck,
      runResp, imageReady, statusStart, statusCheck, statusDid, statusResp,
      history, outputs, uuids, workflowStore, runs, saves, exBody, exPid,
      exRun, exStatus, expc, apiReq, apiResp, backendSent, apiCalls, dash>>

vars ==
    <<gNodes, gLinks, gpc, built, now, runPc, req, submitted, promptId,
      pollStart, wakeAt, loopCheck, runResp, imageReady, statusStart,
      statusCheck, statusDid, statusResp, history, outputs, uuids,
      workflowStore, runs, saves, exBody, exPid, exRun, exStatus, expc,
      apiReq, apiResp, backendSent, apiCalls, dash>>

(***************************************************************************)
(* Bounds of the model.                                                    *)
(***************************************************************************)
MaxNodes == 2
MaxLinks == 2
\* The history store holds at most this many records.
MaxRecords == 1
\* Calls of saveImageToHistory that run concurrently, and the milliseconds
\* that pass while they do.
MaxSavers == 2
\* Entries (the body's own fields, keyed entries, array elements) of a
\* history response body.
MaxEntries == 2
\* Nodes of a graph drawn from the pool of node shapes.
MaxPoolNodes == 2
MaxStoreTicks == 1
\* The clock starts here and advances by POLL_INTERVAL_MS (at most
\* MaxFineTicks times) or by LongWait (at most MaxLongWaits times).
NowInit == 1000
MaxFineTicks == 1
MaxLongWaits == 3
\* Requests that follow the first run.
MaxRuns == 2
\* Entries of an uploaded workflow file; requests to the HTTP endpoints.
MaxImportEntries == 2
MaxApiCalls == 2
\* Timers the dashboard sets for status polls.
MaxTimers == 3

(***************************************************************************)
(* JavaScript values.  A job input is a scalar, a two-element reference    *)
(* [sourceNodeId, sourceOutputIndex], or undefined (the key is absent).    *)
(***************************************************************************)
Undef == [k |-> "undef", v |-> "", slot |-> 0]
Val(s) == [k |-> "val", v |-> s, slot |-> 0]
Ref(n, i) == [k |-> "ref", v |-> n, slot |-> i]

Digits == <<"0", "1", "2", "3", "4", "5", "6", "7", "8", "9">>

\* String(n) for the small non-negative integers of the model.
ToStr(n) ==
    IF n < 10 THEN Digits[n + 1]
    ELSE Digits[(n \div 10) + 1] \o Digits[(n % 10) + 1]

\* A node id that no node of the graph carries.
AbsentId == MaxNodes + 7

(***************************************************************************)
(* String tables: the node kinds of the model with their lower-case form,  *)
(* their form without white space and the substring tests of the code.     *)
(***************************************************************************)
ToLower(t) ==
    CASE t = "KSampler" -> "ksampler"
      [] t = "K Sampler" -> "k sampler"
      [] t = "CLIPTextEncode" -> "cliptextencode"
      [] t = "LoadImage" -> "loadimage"
      [] t = "SaveImage" -> "saveimage"
      [] t = "Note" -> "note"
      [] t = "NOTE" -> "note"
      [] t = "MarkdownNote" -> "markdownnote"
      [] t = "Markdown Note" -> "markdown note"
      [] t = "VAELoader" -> "vaeloader"
      [] t = "DualCLIPLoader" -> "dualcliploader"
      [] t = "ImageScaleToTotalPixels" -> "imagescaletototalpixels"
      [] t = "FluxGuidance" -> "fluxguidance"
      [] t = "UNETLoader" -> "unetloader"
      [] t = "LoraLoaderModelOnly" -> "loraloadermodelonly"
      [] t = "CLIPLoader" -> "cliploader"
      [] t = "TextEncodeQwenImageEdit" -> "textencodeqwenimageedit"
      [] t = "ModelSamplingAuraFlow" -> "modelsamplingauraflow"
      [] t = "CFGNorm" -> "cfgnorm"
      [] t = "PromptBox" -> "promptbox"
      [] t = "ClipTextEncode" -> "cliptextencode"
      [] t = "Custom" -> "custom"
      [] t = "NEGATIVE" -> "negative"
      [] t = "Negative Prompt" -> "negative prompt"
      [] OTHER -> t

\* type.replace(/\s+/g, "")
RemoveSpaces(t) ==
    CASE t = "K Sampler" -> "KSampler"
      [] t = "Markdown Note" -> "MarkdownNote"
      [] t = "Negative Prompt" -> "NegativePrompt"
      [] OTHER -> t

\* /textencode/.test(s)
HasTextEncode(s) == s \in {"cliptextencode", "textencodeqwenimageedit"}

\* /prompt/.test(s)
HasPrompt(s) == s \in {"promptbox", "negative prompt"}

\* /negative/.test(s)
HasNegative(s) == s \in {"negative prompt", "negative"}

\* s.includes("loadimage")
HasLoadImage(s) == s \in {"loadimage"}

(***************************************************************************)
(* stripIgnoredNodes                                                       *)
(***************************************************************************)
\* The annotation kinds written as two words.
ignoredTypesSpaced == {"note", "markdown note"}

ignoredTypes == {"note", "markdownnote"}

NodeIsKept(node) == ToLower(node.type) \notin ignoredTypes

keptNodes(nodes) == SelectSeq(nodes, NodeIsKept)

removedIds(nodes) ==
    {ToStr(nodes[i].id) : i \in {j \in 1..Len(nodes) : ~NodeIsKept(nodes[j])}}

\* The filter with only the destination compared against removedIds.
LinkIsKeptByTargetOnly(nodes, link) ==
    /\ Len(link) >= 5
    /\ ToStr(link[4]) \notin removedIds(nodes)

\* Array.isArray(link) && link.length >= 5 && !removedIds.has(String(fromId))
\*     && !removedIds.has(String(toId))
LinkIsKept(nodes, link) ==
    /\ Len(link) >= 5
    /\ ToStr(link[2]) \notin removedIds(nodes)
    /\ ToStr(link[4]) \notin removedIds(nodes)

keptLinks(nodes, links) ==
    LET keep(l) == LinkIsKept(nodes, l) IN SelectSeq(links, keep)

(***************************************************************************)
(* ensureClassTypes                                                        *)
(***************************************************************************)
ensureClassTypes(nodes) ==
    [i \in 1..Len(nodes) |->
        IF nodes[i].isNull THEN nodes[i]
        ELSE IF nodes[i].class_type = ""
        THEN [nodes[i] EXCEPT !.class_type =
                 IF nodes[i].type # "" THEN nodes[i].type ELSE "Unknown"]
        ELSE nodes[i]]

(***************************************************************************)
(* setPromptTexts, setLoadImageFilename                                    *)
(***************************************************************************)
SetFirstWidget(node, target) ==
    IF Len(node.widgets_values) > 0
    THEN [node EXCEPT !.widgets_values[1] = target]
    ELSE [node EXCEPT !.widgets_values = <<target>>]

\* The injection with a single target: only the first matching node.
setPromptTextsFirstMatch(nodes, positivePrompt, negativePrompt) ==
    [i \in 1..Len(nodes) |->
        LET type == ToLower(nodes[i].type)
            title == ToLower(nodes[i].title)
            matches(j) == HasPrompt(ToLower(nodes[j].type))
                              \/ HasTextEncode(ToLower(nodes[j].type))
        IN IF matches(i) /\ \A j \in 1..(i - 1) : ~matches(j)
           THEN SetFirstWidget(nodes[i],
                    IF HasNegative(title) THEN negativePrompt
                    ELSE positivePrompt)
           ELSE nodes[i]]

setPromptTexts(nodes, positivePrompt, negativePrompt) ==
    [i \in 1..Len(nodes) |->
        LET type == ToLower(nodes[i].type)
            title == ToLower(nodes[i].title)
        IN IF HasPrompt(type) \/ HasTextEncode(type)
           THEN SetFirstWidget(nodes[i],
                    IF HasNegative(title) THEN negativePrompt
                    ELSE positivePrompt)
           ELSE nodes[i]]

setLoadImageFilename(nodes, filename) ==
    [i \in 1..Len(nodes) |->
        IF HasLoadImage(ToLower(nodes[i].type))
        THEN SetFirstWidget(nodes[i], filename)
        ELSE nodes[i]]

(***************************************************************************)
(* buildPromptGraph                                                        *)
(***************************************************************************)
NoId == 0 - 1

\* node?.id !== undefined ? String(node.id) : `node-${idx}` (idx from 0)
NodeKey(nodes, i) ==
    IF nodes[i].id # NoId THEN ToStr(nodes[i].id) ELSE "node-" \o ToStr(i - 1)

NodeKeys(nodes) == {NodeKey(nodes, i) : i \in 1..Len(nodes)}

\* nodeMap.get(key): the last node stored under the key.
NodeAt(nodes, key) ==
    nodes[CHOOSE i \in 1..Len(nodes) :
             /\ NodeKey(nodes, i) = key
             /\ \A j \in (i + 1)..Len(nodes) : NodeKey(nodes, j) # key]

EmptyInputs == [n \in {} |-> Undef]

\* The first pass: every node gets an entry with its kind and no inputs.
InitPrompt(nodes) ==
    [key \in NodeKeys(nodes) |->
        [class_type |-> IF NodeAt(nodes, key).type # ""
                        THEN NodeAt(nodes, key).type ELSE "Unknown",
         inputs |-> EmptyInputs]]

\* (Array.isArray(toNode?.inputs) && toNode.inputs[toSlot]?.name) || String(toSlot)
LinkInputName(nodes, link) ==
    LET toId == ToStr(link[4])
        toSlot == link[5]
    IN IF /\ toId \in NodeKeys(nodes)
          /\ toSlot + 1 \in 1..Len(NodeAt(nodes, toId).inputs)
          /\ NodeAt(nodes, toId).inputs[toSlot + 1].name # ""
       THEN NodeAt(nodes, toId).inputs[toSlot + 1].name
       ELSE ToStr(toSlot)

\* prompt[toId].inputs[inputName] = [fromId, fromIndex], when prompt[toId] exists.
ApplyLink(nodes, prompt, link) ==
    IF Len(link) < 5 THEN prompt
    ELSE LET fromId == ToStr(link[2])
             toId == ToStr(link[4])
             inputName == LinkInputName(nodes, link)
         IN IF toId \in DOMAIN prompt
            THEN [prompt EXCEPT ![toId].inputs =
                     (inputName :> Ref(fromId, link[3])) @@ @]
            ELSE prompt

RECURSIVE LinkPass(_, _, _, _)
\* for (const link of links) ..., from the i-th link on.
LinkPass(nodes, links, i, prompt) ==
    IF i > Len(links) THEN prompt
    ELSE LinkPass(nodes, links, i + 1, ApplyLink(nodes, prompt, links[i]))

\* widgetValues[i], with i from 0; undefined beyond the end.
WidgetAt(wv, i) == IF i + 1 \in 1..Len(wv) THEN wv[i + 1] ELSE Undef

\* The write without the test for an input that is already set.
SetIfUndefinedOverwrites(ins, name, val) ==
    IF val # Undef THEN (name :> val) @@ ins ELSE ins

\* if (val !== undefined && inputs[name] === undefined) inputs[name] = val
SetIfUndefined(ins, name, val) ==
    IF val # Undef /\ name \notin DOMAIN ins THEN (name :> val) @@ ins ELSE ins

RECURSIVE ConsumeDeclared(_, _, _)
\* inputDefs.forEach: a declared slot without link and without value takes the
\* next widget value.  st = [ins, wv]; defs are handled from position i on.
ConsumeDeclared(defs, i, st) ==
    IF i > Len(defs) THEN st
    ELSE LET name == IF defs[i].name # "" THEN defs[i].name ELSE ToStr(i - 1)
             hasLink == defs[i].link # "undefined"
         IN IF ~hasLink /\ name \notin DOMAIN st.ins /\ Len(st.wv) > 0
            THEN ConsumeDeclared(defs, i + 1,
                     [ins |-> SetIfUndefined(st.ins, name, Head(st.wv)),
                      wv |-> Tail(st.wv)])
            ELSE ConsumeDeclared(defs, i + 1, st)

widgetInputHints(type) ==
    CASE type = "KSampler" ->
             <<"seed", "steps", "cfg", "sampler_name", "scheduler", "denoise">>
      [] type = "ImageScaleToTotalPixels" -> <<"upscale_method", "total_pixels">>
      [] type = "CLIPTextEncode" -> <<"text">>
      [] type = "FluxGuidance" -> <<"guidance_strength">>
      [] type = "VAELoader" -> <<"vae">>
      [] type = "DualCLIPLoader" -> <<"clip", "t5xxl", "type", "mode">>
      [] type = "LoraLoaderModelOnly" -> <<"lora_name", "strength">>
      [] type = "LoadImage" -> <<"image", "type">>
      [] type = "UNETLoader" -> <<"unet_name", "type">>
      [] type = "SaveImage" -> <<"filename">>
      [] type = "CLIPLoader" -> <<"clip_name", "type">>
      [] type = "TextEncodeQwenImageEdit" -> <<"prompt">>
      [] type = "ModelSamplingAuraFlow" -> <<"shift">>
      [] type = "CFGNorm" -> <<"strength">>
      [] OTHER -> <<>>

getWidgetNames(type) ==
    IF type = "" THEN <<>>
    ELSE IF widgetInputHints(type) # <<>> THEN widgetInputHints(type)
    ELSE widgetInputHints(RemoveSpaces(type))

\* The guarded assignments of one node kind, in the order of the code: each
\* entry <<name, index>> is "inputs[name] = widgetValues[index] if both allow".
KindWrites(typeLower, typeExact) ==
    (IF typeLower = "vaeloader" THEN <<(<<"vae_name", 0>>)>> ELSE <<>>)
    \o (IF typeLower = "dualcliploader"
        THEN <<(<<"clip_name1", 0>>), <<"clip_name2", 1>>, <<"type", 2>>,
               <<"mode", 3>>>>
        ELSE <<>>)
    \o (IF typeExact = "ImageScaleToTotalPixels"
        THEN <<(<<"upscale_method", 0>>), <<"megapixels", 1>>>> ELSE <<>>)
    \o (IF typeExact = "FluxGuidance" THEN <<(<<"guidance", 0>>)>> ELSE <<>>)
    \o (IF typeLower = "unetloader"
        THEN <<(<<"unet_name", 0>>), <<"weight_dtype", 1>>>> ELSE <<>>)
    \o (IF typeLower = "loraloadermodelonly"
        THEN <<(<<"lora_name", 0>>), <<"strength_model", 1>>>> ELSE <<>>)
    \o (IF typeLower = "ksampler"
        THEN <<(<<"seed", 0>>), <<"steps", 2>>, <<"cfg", 3>>,
               <<"sampler_name", 4>>, <<"scheduler", 5>>, <<"denoise", 6>>>>
        ELSE <<>>)

\* hints.forEach((hint, i) => ...): hint i takes widgetValues[i].
HintWrites(type) ==
    [i \in 1..Len(getWidgetNames(type)) |-> <<getWidgetNames(type)[i], i - 1>>]

\* The assignments after the hint table that have one guard each.
LateWrites(typeLower, typeExact) ==
    (IF HasTextEncode(typeLower) \/ HasPrompt(typeLower)
     THEN <<(<<"text", 0>>)>> ELSE <<>>)
    \o (IF typeExact = "TextEncodeQwenImageEdit"
        THEN <<(<<"prompt", 0>>)>> ELSE <<>>)

TailWrites(typeExact) ==
    (IF typeExact = "ModelSamplingAuraFlow" THEN <<(<<"shift", 0>>)>> ELSE <<>>)
    \o (IF typeExact = "CFGNorm" THEN <<(<<"strength", 0>>)>> ELSE <<>>)

RECURSIVE ApplyWrites(_, _, _, _)
ApplyWrites(writes, i, wv, ins) ==
    IF i > Len(writes) THEN ins
    ELSE ApplyWrites(writes, i + 1, wv,
             SetIfUndefined(ins, writes[i][1], WidgetAt(wv, writes[i][2])))

\* typeLower === "saveimage": filename_prefix defaults to "ComfyUI".
SaveImageWrite(typeLower, wv, ins) ==
    IF typeLower = "saveimage"
    THEN SetIfUndefined(ins, "filename_prefix",
             IF WidgetAt(wv, 0) # Undef THEN WidgetAt(wv, 0) ELSE Val("ComfyUI"))
    ELSE ins

\* typeExact === "CLIPLoader": type is set only inside the clip_name branch.
ClipLoaderWrite(typeExact, wv, ins) ==
    IF /\ typeExact = "CLIPLoader"
       /\ WidgetAt(wv, 0) # Undef
       /\ "clip_name" \notin DOMAIN ins
    THEN SetIfUndefined(SetIfUndefined(ins, "clip_name", WidgetAt(wv, 0)),
                        "type", WidgetAt(wv, 1))
    ELSE ins

\* widgetValues.forEach((val, i) => ...): valueN for what is left in the list.
ValueWrites(wv) == [i \in 1..Len(wv) |-> <<"value" \o ToStr(i - 1), i - 1>>]

\* The body of the second nodes.forEach for one node: the new inputs.
NodeInputs(node, ins0) ==
    LET st == ConsumeDeclared(node.inputs, 1,
                              [ins |-> ins0, wv |-> node.widgets_values])
        wv == st.wv
        typeLower == ToLower(node.type)
        typeExact == node.type
        a == SaveImageWrite(typeLower, wv, st.ins)
        b == ApplyWrites(KindWrites(typeLower, typeExact), 1, wv, a)
        c == ApplyWrites(HintWrites(node.type), 1, wv, b)
        d == ApplyWrites(LateWrites(typeLower, typeExact), 1, wv, c)
        e == ClipLoaderWrite(typeExact, wv, d)
        f == ApplyWrites(TailWrites(typeExact), 1, wv, e)
    IN ApplyWrites(ValueWrites(wv), 1, wv, f)

RECURSIVE WidgetPass(_, _, _)
\* The second nodes.forEach, from the i-th node on.
WidgetPass(nodes, i, prompt) ==
    IF i > Len(nodes) THEN prompt
    ELSE WidgetPass(nodes, i + 1,
             [prompt EXCEPT ![NodeKey(nodes, i)].inputs =
                 NodeInputs(nodes[i], @)])

buildPromptGraph(nodes, links) ==
    WidgetPass(nodes, 1, LinkPass(nodes, links, 1, InitPrompt(nodes)))

\* The second nodes.forEach reads node.widgets_values and node.inputs of
\* every node that has an entry in prompt: a TypeError for a null node.
buildThrows(nodes, links) == \E i \in 1..Len(nodes) : nodes[i].isNull

(***************************************************************************)
(* The graphs of the model: node lists over a pool of node shapes as the   *)
(* authoring tool exports them, and links between the first nodes and a    *)
(* node id that is not in the graph.                                       *)
(***************************************************************************)
Slot(n, l) == [name |-> n, link |-> l]

MkNode(id, type, title, inputs, wv) ==
    [id |-> id, type |-> type, title |-> title, inputs |-> inputs,
     widgets_values |-> wv, class_type |-> "", isNull |-> FALSE]

\* A null element of workflow.nodes.
NullNode ==
    [id |-> NoId, type |-> "", title |-> "", inputs |-> <<>>,
     widgets_values |-> <<>>, class_type |-> "", isNull |-> TRUE]

SamplerWidgets ==
    <<Val("42"), Val("fixed"), Val("20"), Val("7.5"), Val("euler"),
      Val("normal"), Val("1.0")>>

NodeShapes ==
    {"sampler", "samplerSlots", "encode", "encodeNegative", "note", "loadImage"}

NodeOfShape(id, shape) ==
    CASE shape = "sampler" ->
             MkNode(id, "KSampler", "", <<>>, SamplerWidgets)
      [] shape = "samplerSlots" ->
             MkNode(id, "KSampler", "",
                    <<Slot("seed", "undefined"), Slot("steps", "null")>>,
                    SamplerWidgets)
      [] shape = "encode" ->
             MkNode(id, "CLIPTextEncode", "", <<Slot("clip", "linked")>>,
                    <<Val("a cat")>>)
      [] shape = "encodeNegative" ->
             MkNode(id, "CLIPTextEncode", "Negative Prompt",
                    <<Slot("clip", "linked"), Slot("text", "undefined")>>,
                    <<Val("ugly")>>)
      [] shape = "note" ->
             MkNode(id, "Note", "", <<>>, <<Val("memo")>>)
      [] shape = "loadImage" ->
             MkNode(id, "LoadImage", "", <<>>, <<Val("in.png"), Val("image")>>)
      [] shape = "null" -> NullNode
      [] shape = "bare" -> MkNode(NoId, "", "", <<>>, <<>>)
      [] shape = "valueSlot" ->
             MkNode(id, "Custom", "", <<Slot("value0", "undefined")>>,
                    <<Val("first"), Val("second")>>)
      [] shape = "encodeFreeSlot" ->
             MkNode(id, "CLIPTextEncode", "", <<Slot("clip", "undefined")>>,
                    <<Val("a cat")>>)
      [] shape = "encodeOddCase" ->
             MkNode(id, "ClipTextEncode", "NEGATIVE", <<>>, <<Val("ugly")>>)
      [] shape = "promptBox" ->
             MkNode(id, "PromptBox", "", <<>>, <<>>)
      [] shape = "noteUpper" ->
             MkNode(id, "NOTE", "", <<>>, <<Val("memo")>>)
      [] shape = "markdownNote" ->
             MkNode(id, "MarkdownNote", "", <<>>, <<Val("# memo")>>)
      [] shape = "markdownNoteSpaced" ->
             MkNode(id, "Markdown Note", "", <<>>, <<Val("# memo")>>)

\* A KSampler without declared slots whose widget list has n values.
SamplerOfLength(id, n) ==
    MkNode(id, "KSampler", "", <<>>,
           SubSeq(SamplerWidgets \o <<Val("extra")>>, 1, n))

\* The nodes of the single-node pool: the graph shapes, the anomalies
\* (null, {}), nodes with unusual declared slots, and samplers with widget
\* lists of every length.
PoolShapes ==
    NodeShapes \cup {"null", "bare", "valueSlot", "encodeFreeSlot",
                     "encodeOddCase", "promptBox", "noteUpper",
                     "markdownNote", "markdownNoteSpaced"}

NodePool(id) ==
    {NodeOfShape(id, shape) : shape \in PoolShapes}
        \cup {SamplerOfLength(id, n) : n \in 0..(Len(SamplerWidgets) + 1)}

LinkSources == {1, AbsentId}
LinkTargets == {1, 2, AbsentId}
LinkSlots == {0, 1}

\* [link id, source node, source output slot, destination node, destination slot]
LinkPool ==
    {<<1, from, 0, to, toSlot>> :
        from \in LinkSources, to \in LinkTargets, toSlot \in LinkSlots}

EmptyJob == InitPrompt(<<>>)

(***************************************************************************)
(* The workflow store (data/workflows.json) after two imports.             *)
(***************************************************************************)
StoredWorkflows ==
    <<[id |-> "wf1", name |-> "Text to image",
       nodes |-> <<NodeOfShape(1, "sampler"), NodeOfShape(2, "encode"),
                   NodeOfShape(3, "encodeNegative")>>,
       links |-> <<(<<1, 2, 0, 1, 0>>), <<2, 3, 0, 1, 1>>>>],
      [id |-> "wf2", name |-> "Image to image",
       nodes |-> <<NodeOfShape(1, "loadImage"), NodeOfShape(2, "samplerSlots"),
                   NodeOfShape(3, "note")>>,
       links |-> <<(<<1, 1, 0, 2, 1>>), <<2, 3, 0, 2, 0>>>>]>>

StoredIds == {StoredWorkflows[i].id : i \in 1..Len(StoredWorkflows)}

\* stored.find((item) => item.id === workflowId)
FindWorkflow(workflowId) ==
    workflowStore[CHOOSE i \in 1..Len(workflowStore) :
        /\ workflowStore[i].id = workflowId
        /\ \A j \in 1..(i - 1) : workflowStore[j].id # workflowId]

\* The synchronous part of the run route between the upload and the submit:
\* setLoadImageFilename (when a name came back), stripIgnoredNodes,
\* setPromptTexts, ensureClassTypes, buildPromptGraph.  The form fields seed
\* and steps are not read.
CompileRun(r, uploadedName) ==
    LET raw == FindWorkflow(r.workflowId)
        n0 == IF uploadedName # ""
              THEN setLoadImageFilename(raw.nodes, Val(uploadedName))
              ELSE raw.nodes
        n1 == keptNodes(n0)
        l1 == keptLinks(n0, raw.links)
        n2 == setPromptTexts(n1, Val(r.positivePrompt), Val(r.negativePrompt))
        n3 == ensureClassTypes(n2)
    IN buildPromptGraph(n3, l1)

\* The working copy written back over the stored workflow.
WorkflowsAfterRunWrittenBack(store, r, uploadedName) ==
    [i \in 1..Len(store) |->
        IF store[i].id # r.workflowId THEN store[i]
        ELSE LET n0 == IF uploadedName # ""
                       THEN setLoadImageFilename(store[i].nodes,
                                                 Val(uploadedName))
                       ELSE store[i].nodes
                 n2 == setPromptTexts(keptNodes(n0), Val(r.positivePrompt),
                                      Val(r.negativePrompt))
             IN [store[i] EXCEPT !.nodes = ensureClassTypes(n2),
                                 !.links = keptLinks(n0, store[i].links)]]

\* data/workflows.json after the synchronous part of a run: the mutators work
\* on structuredClone(workflow.raw ?? workflow) and the route never calls
\* persistWorkflows.
WorkflowsAfterRun(store, r, uploadedName) == store

(***************************************************************************)
(* Program constants and the values of the run model.                      *)
(***************************************************************************)
MAX_POLL_MS == 600000
POLL_INTERVAL_MS == 1500
\* MAX_POLL_MS of the status route.
STATUS_MAX_POLL_MS == 600000

NoStart == 0 - 1
NoCheck == [start |-> 0, at |-> 0, poll |-> TRUE]
NoReq ==
    [workflowId |-> "", baseUrl |-> "", positivePrompt |-> "",
     negativePrompt |-> "", image |-> FALSE, seed |-> "", steps |-> ""]
NoResp ==
    [http |-> 0, outcome |-> "none", filename |-> "", proxyUrl |-> "",
     directUrl |-> ""]
NoStatusResp ==
    [http |-> 0, status |-> "none", filename |-> "", proxyUrl |-> "",
     directUrl |-> ""]
NothingDone == [found |-> FALSE, download |-> "none", save |-> "none"]

\* The image the backend reports for the job.
ImageFilename == "out.png"
ProxyUrlOf(filename) == "/api/image?filename=" \o filename
DirectUrlOf(baseUrl, filename) == baseUrl \o "/view?filename=" \o filename

\* What one GET of the backend's history can come to: the request throws,
\* answers a non-success status, answers without an image of the job, or (once
\* the job is finished) answers with its image.
PollResults ==
    {"neterr", "http_err", "no_image"}
        \cup (IF imageReady THEN {"image"} ELSE {})

InitRun ==
    /\ now = NowInit
    /\ runPc = "idle"
    /\ req = NoReq
    /\ submitted = EmptyJob
    /\ promptId = ""
    /\ pollStart = 0
    /\ wakeAt = 0
    /\ loopCheck = NoCheck
    /\ runResp = NoResp
    /\ imageReady = FALSE
    /\ statusStart = NoStart
    /\ statusCheck = NoCheck
    /\ statusDid = NothingDone
    /\ statusResp = NoStatusResp
    /\ history = <<>>
    /\ outputs = {}
    /\ uuids = 0

(***************************************************************************)
(* The compiler pipeline of the run route, on every graph of the model.    *)
(***************************************************************************)
InitGraph ==
    /\ gNodes = <<>>
    /\ gLinks = <<>>
    /\ gpc = "author"
    /\ built = EmptyJob

\* A call of saveImageToHistory that has not begun.
NoSave ==
    [pc |-> "idle", id |-> "", originalFilename |-> "",
     storedFilename |-> [ts |-> 0, name |-> ""], createdAt |-> 0,
     read |-> <<>>,
     opts |-> [promptId |-> "", workflowId |-> ""]]

\* extractImageFromBody returned null.
NoImage == [found |-> FALSE, filename |-> "", subfolder |-> "", type |-> ""]

\* A field of an entry that is not there, and an entry without fields.
NoField == [present |-> FALSE, groups |-> <<>>]
NoEntry ==
    [isObject |-> TRUE, outputs |-> NoField, output |-> NoField,
     data |-> NoField]

\* The body {}: an object without outputs, job keys or history.
EmptyBody ==
    [kind |-> "object", own |-> NoEntry, prompt_id |-> "", keys |-> <<>>,
     histPresent |-> FALSE, hist |-> <<>>, elems |-> <<>>]

NoApiReq == [endpoint |-> "", cookie |-> ""]

\* The dashboard after mount: nothing selected, nothing running; pollTimer 0
\* is the null ref.
InitDash ==
    [isRunning |-> FALSE, pollTimer |-> 0, timers |-> {}, timerSeq |-> 0,
     polls |-> 0, runFetches |-> 0, lastStatus |-> "", runError |-> "",
     runResult |-> FALSE, selectedWorkflow |-> "", apiBase |-> ""]

InitAux ==
    /\ workflowStore = StoredWorkflows
    /\ runs = 0
    /\ apiReq = NoApiReq
    /\ apiResp = 0
    /\ backendSent = {}
    /\ apiCalls = 0
    /\ dash = InitDash
    /\ saves = [c \in 1..MaxSavers |-> NoSave]
    /\ exBody = EmptyBody
    /\ exPid = ""
    /\ exRun = NoImage
    /\ exStatus = NoImage
    /\ expc = "body"

Init == InitGraph /\ InitRun /\ InitAux

\* The authoring tool adds a node; ids are unique within a graph.
AddNode ==
    /\ gpc = "author"
    /\ gLinks = <<>>
    /\ Len(gNodes) < MaxNodes
    /\ \E shape \in NodeShapes :
          gNodes' = Append(gNodes, NodeOfShape(Len(gNodes) + 1, shape))
    /\ UNCHANGED <<gLinks, gpc, built>>
    /\ UNCHANGED restVars

\* The authoring tool adds a link.
AddLink ==
    /\ gpc = "author"
    /\ gNodes # <<>>
    /\ Len(gLinks) < MaxLinks
    /\ \E l \in LinkPool : gLinks' = Append(gLinks, l)
    /\ UNCHANGED <<gNodes, gpc, built>>
    /\ UNCHANGED restVars

\* setLoadImageFilename(workingCopy, uploadedName)
SetImage ==
    /\ gpc = "author"
    /\ gNodes' = setLoadImageFilename(gNodes, Val("upload.png"))
    /\ gpc' = "imaged"
    /\ UNCHANGED <<gLinks, built>>
    /\ UNCHANGED restVars

\* stripIgnoredNodes(workingCopy)
Strip ==
    /\ gpc \in {"author", "imaged"}
    /\ gNodes' = keptNodes(gNodes)
    /\ gLinks' = keptLinks(gNodes, gLinks)
    /\ gpc' = "stripped"
    /\ UNCHANGED built
    /\ UNCHANGED restVars

\* setPromptTexts(workingCopy, positivePrompt, negativePrompt)
SetTexts ==
    /\ gpc = "stripped"
    /\ gNodes' = setPromptTexts(gNodes, Val("a dog"), Val("blurry"))
    /\ gpc' = "texts"
    /\ UNCHANGED <<gLinks, built>>
    /\ UNCHANGED restVars

\* ensureClassTypes(workingCopy)
EnsureTypes ==
    /\ gpc = "texts"
    /\ gNodes' = ensureClassTypes(gNodes)
    /\ gpc' = "typed"
    /\ UNCHANGED <<gLinks, built>>
    /\ UNCHANGED restVars

\* const promptGraph = buildPromptGraph(workingCopy)
Build ==
    /\ gpc = "typed"
    /\ IF buildThrows(gNodes, gLinks)
       THEN /\ gpc' = "threw"
            /\ UNCHANGED built
       ELSE /\ built' = buildPromptGraph(gNodes, gLinks)
            /\ gpc' = "built"
    /\ UNCHANGED <<gNodes, gLinks>>
    /\ UNCHANGED restVars

NextCompile ==
    \/ AddNode
    \/ AddLink
    \/ SetImage
    \/ Strip
    \/ SetTexts
    \/ EnsureTypes
    \/ Build

SpecCompile == Init /\ [][NextCompile]_vars

(***************************************************************************)
(* The same pipeline on graphs of nodes drawn from the pool.               *)
(***************************************************************************)
\* The stored graph has one more node, of any shape of the pool.
PickNode ==
    /\ gpc = "author"
    /\ gLinks = <<>>
    /\ Len(gNodes) < MaxPoolNodes
    /\ \E node \in NodePool(Len(gNodes) + 1) : gNodes' = Append(gNodes, node)
    /\ UNCHANGED <<gLinks, gpc, built>>
    /\ UNCHANGED restVars

\* The stored graph has a link with fewer than five elements.
AddMalformedLink ==
    /\ gpc = "author"
    /\ gNodes # <<>>
    /\ gLinks = <<>>
    /\ gLinks' = <<(<<1, 1, 0>>)>>
    /\ UNCHANGED <<gNodes, gpc, built>>
    /\ UNCHANGED restVars

NextNode ==
    \/ PickNode
    \/ AddMalformedLink
    \/ SetImage
    \/ Strip
    \/ SetTexts
    \/ EnsureTypes
    \/ Build

SpecNode == Init /\ [][NextNode]_vars

(***************************************************************************)
(* POST /api/run: the long-lived variant.                                  *)
(***************************************************************************)
\* NextResponse.json({error}, {status}) of the run route.
ErrorResp(http, outcome) == [NoResp EXCEPT !.http = http, !.outcome = outcome]

\* NextResponse.json({...result, proxyUrl, directUrl, ...}) after pollForResult.
DoneResp(baseUrl) ==
    [http |-> 200, outcome |-> "Done", filename |-> ImageFilename,
     proxyUrl |-> ProxyUrlOf(ImageFilename),
     directUrl |-> DirectUrlOf(baseUrl, ImageFilename)]

RunForms ==
    {[workflowId |-> wf, baseUrl |-> base, positivePrompt |-> "a dog",
      negativePrompt |-> "blurry", image |-> img, seed |-> "7",
      steps |-> "30"] :
        wf \in StoredIds \cup {"", "ghost"},
        base \in {"http://comfy:8188", ""},
        img \in BOOLEAN}

\* The handler up to its first await on the backend: the form is read and
\* checked, the stored workflow is cloned; without an image the job is
\* compiled and posted at once.
ReceiveRun ==
    /\ runPc = "idle"
    /\ \E r \in RunForms :
          /\ req' = r
          /\ IF r.workflowId = "" \/ r.baseUrl = ""
             THEN /\ runResp' = ErrorResp(400, "Rejected")
                  /\ runPc' = "responded"
                  /\ UNCHANGED submitted
             ELSE IF r.workflowId \notin StoredIds
             THEN /\ runResp' = ErrorResp(404, "Rejected")
                  /\ runPc' = "responded"
                  /\ UNCHANGED submitted
             ELSE IF r.image
             THEN /\ runPc' = "upload"
                  /\ UNCHANGED <<submitted, runResp>>
             ELSE /\ runPc' = "submit"
                  /\ submitted' = CompileRun(r, "")
                  /\ UNCHANGED runResp
          /\ workflowStore' =
                 IF r.workflowId = "" \/ r.baseUrl = ""
                        \/ r.workflowId \notin StoredIds \/ r.image
                 THEN workflowStore
                 ELSE WorkflowsAfterRun(workflowStore, r, "")
    /\ UNCHANGED <<promptId, pollStart, wakeAt, loopCheck>>
    /\ UNCHANGED <<now, imageReady, statusVars, storeVars, graphVars, auxVars>>
    /\ UNCHANGED runs

\* uploadImage: what POST /upload/image can come to.
UploadResults == {"neterr", "http_err", "unparseable", "named", "unnamed"}

\* data.name || data.filename || file.name || null
UploadedName(result) == IF result = "named" THEN "upload.png" ELSE "input.png"

UploadReturns ==
    /\ runPc = "upload"
    /\ \E result \in UploadResults :
          IF result \in {"neterr", "http_err", "unparseable"}
          THEN /\ runResp' = ErrorResp(500, "Failed")
               /\ runPc' = "responded"
               /\ UNCHANGED <<submitted, workflowStore>>
          ELSE /\ submitted' = CompileRun(req, UploadedName(result))
               /\ workflowStore' =
                      WorkflowsAfterRun(workflowStore, req,
                                        UploadedName(result))
               /\ runPc' = "submit"
               /\ UNCHANGED runResp
    /\ UNCHANGED <<req, promptId, pollStart, wakeAt, loopCheck>>
    /\ UNCHANGED <<now, imageReady, statusVars, storeVars, graphVars, auxVars>>
    /\ UNCHANGED runs

\* What POST /prompt can come to.
SubmitResults == {"neterr", "http_err", "no_id", "ok"}

\* A route that polls after every answer of POST /prompt.
SubmitReturnsUnchecked ==
    /\ runPc = "submit"
    /\ \E result \in SubmitResults :
          /\ promptId' = IF result = "ok" THEN "job-1" ELSE ""
          /\ pollStart' = now
          /\ runPc' = "check"
          /\ UNCHANGED runResp
    /\ UNCHANGED <<req, submitted, wakeAt, loopCheck>>
    /\ UNCHANGED <<now, imageReady, statusVars, storeVars, graphVars, auxVars>>
    /\ UNCHANGED <<workflowStore, runs>>

SubmitReturns ==
    /\ runPc = "submit"
    /\ \E result \in SubmitResults :
          CASE result = "ok" ->
                   /\ promptId' = "job-1"
                   /\ pollStart' = now
                   /\ runPc' = "check"
                   /\ UNCHANGED runResp
            [] result = "http_err" ->
                   /\ runResp' = ErrorResp(400, "Failed")
                   /\ runPc' = "responded"
                   /\ UNCHANGED <<promptId, pollStart>>
            [] OTHER ->
                   /\ runResp' = ErrorResp(500, "Failed")
                   /\ runPc' = "responded"
                   /\ UNCHANGED <<promptId, pollStart>>
    /\ UNCHANGED <<req, submitted, wakeAt, loopCheck>>
    /\ UNCHANGED <<now, imageReady, statusVars, storeVars, graphVars, auxVars>>
    /\ UNCHANGED <<workflowStore, runs>>

\* while (Date.now() - start < MAX_POLL_MS)
LoopContinues(start, t) == t - start < MAX_POLL_MS

\* The loop condition of pollForResult; when it fails NoImageFound is thrown
\* and the route answers 502.
LoopCheck ==
    /\ runPc = "check"
    /\ loopCheck' =
          [start |-> pollStart, at |-> now, poll |-> LoopContinues(pollStart, now)]
    /\ IF LoopContinues(pollStart, now)
       THEN /\ runPc' = "byId"
            /\ UNCHANGED runResp
       ELSE /\ runResp' = ErrorResp(502, "TimedOut")
            /\ runPc' = "responded"
    /\ UNCHANGED <<req, submitted, promptId, pollStart, wakeAt>>
    /\ UNCHANGED <<now, imageReady, statusVars, storeVars, graphVars, auxVars>>
    /\ UNCHANGED <<workflowStore, runs>>

\* One fetch of the loop returns.  A rejected fetch is not caught in
\* pollForResult: it reaches the catch of POST, which answers 500.
LoopFetchReturns(result, nextPc, wake) ==
    /\ CASE result = "image" ->
                /\ runResp' = DoneResp(req.baseUrl)
                /\ runPc' = "responded"
                /\ UNCHANGED wakeAt
         [] result = "neterr" ->
                /\ runResp' = ErrorResp(500, "Failed")
                /\ runPc' = "responded"
                /\ UNCHANGED wakeAt
         [] OTHER ->
                /\ runPc' = nextPc
                /\ wakeAt' = wake
                /\ UNCHANGED runResp
    /\ UNCHANGED <<req, submitted, promptId, pollStart, loopCheck>>
    /\ UNCHANGED <<now, imageReady, statusVars, storeVars, graphVars, auxVars>>
    /\ UNCHANGED <<workflowStore, runs>>

\* await fetch(`${baseUrl}/history/${promptId}`)
HistoryByIdReturns ==
    /\ runPc = "byId"
    /\ \E result \in PollResults : LoopFetchReturns(result, "full", wakeAt)

\* await fetch(`${baseUrl}/history`), then setTimeout(resolve, POLL_INTERVAL_MS)
FullHistoryReturns ==
    /\ runPc = "full"
    /\ \E result \in PollResults :
          LoopFetchReturns(result, "sleep", now + POLL_INTERVAL_MS)

\* The timer of the loop fires.
Wake ==
    /\ runPc = "sleep"
    /\ now >= wakeAt
    /\ runPc' = "check"
    /\ UNCHANGED <<req, submitted, promptId, pollStart, wakeAt, loopCheck,
                   runResp>>
    /\ UNCHANGED <<now, imageReady, statusVars, storeVars, graphVars, auxVars>>
    /\ UNCHANGED <<workflowStore, runs>>

(***************************************************************************)
(* The backend and the clock.                                              *)
(***************************************************************************)
\* The backend finishes the job: its history now holds the image.
BackendFinish ==
    /\ promptId # ""
    /\ ~imageReady
    /\ imageReady' = TRUE
    /\ UNCHANGED <<now, runVars, statusVars, storeVars, graphVars, auxVars>>
    /\ UNCHANGED <<workflowStore, runs>>

\* A long wait is a whole number of poll intervals.
LongWait == 200 * POLL_INTERVAL_MS

FineTicksUsed == ((now - NowInit) % LongWait) \div POLL_INTERVAL_MS
LongWaitsUsed == (now - NowInit) \div LongWait

\* Time passes while the run route awaits the backend or its timer, or while
\* the caller of the status route waits for its next call.
Tick ==
    /\ runPc \in {"byId", "full", "sleep"} \/ statusStart # NoStart
    /\ \E d \in {POLL_INTERVAL_MS, LongWait} :
          /\ d = POLL_INTERVAL_MS => FineTicksUsed < MaxFineTicks
          /\ d = LongWait => LongWaitsUsed < MaxLongWaits
          /\ now' = now + d
    /\ UNCHANGED <<imageReady, runVars, statusVars, storeVars, graphVars, auxVars>>
    /\ UNCHANGED <<workflowStore, runs>>

(***************************************************************************)
(* The history store: saveImageToHistory.                                  *)
(***************************************************************************)
\* `${Date.now()}-${originalFilename || id}.png`
StoredFilename(t, originalFilename, id) ==
    [ts |-> t, name |-> IF originalFilename # "" THEN originalFilename ELSE id]

HistoryItem(id, t, originalFilename, opts) ==
    [id |-> id,
     createdAt |-> t,
     originalFilename |->
         IF originalFilename # "" THEN originalFilename ELSE "output.png",
     storedFilename |-> StoredFilename(t, originalFilename, id),
     promptId |-> opts.promptId,
     workflowId |-> opts.workflowId]

\* What a call of saveImageToHistory can come to: writing the file throws,
\* reading or writing history.json throws after the file is written, or the
\* item is stored.
SaveResults == {"write_fail", "read_fail", "persist_fail", "ok"}

\* A save that skips a job that has a record already.
saveImageToHistoryOncePerJob(store, id, t, originalFilename, opts, result) ==
    CASE result = "write_fail" -> store
      [] result \in {"read_fail", "persist_fail"} ->
             [store EXCEPT !.outputs =
                 @ \cup {StoredFilename(t, originalFilename, id)}]
      [] OTHER ->
             [history |->
                  IF \E k \in 1..Len(store.history) :
                        store.history[k].promptId = opts.promptId
                  THEN store.history
                  ELSE <<HistoryItem(id, t, originalFilename, opts)>>
                           \o store.history,
              outputs |->
                  store.outputs \cup {StoredFilename(t, originalFilename, id)}]

\* The store [history, outputs] after saveImageToHistory with that result.
saveImageToHistory(store, id, t, originalFilename, opts, result) ==
    CASE result = "write_fail" -> store
      [] result \in {"read_fail", "persist_fail"} ->
             [store EXCEPT !.outputs =
                 @ \cup {StoredFilename(t, originalFilename, id)}]
      [] OTHER ->
             [history |->
                  <<HistoryItem(id, t, originalFilename, opts)>>
                      \o store.history,
              outputs |->
                  store.outputs \cup {StoredFilename(t, originalFilename, id)}]

(***************************************************************************)
(* POST /api/run/status: the checkpointed variant.                         *)
(***************************************************************************)
\* A caller that holds the job id starts calling the status route; body.start
\* is the caller's: the time of its first call, the submission time, or none.
BeginStatus ==
    /\ runPc = "responded"
    /\ promptId # ""
    /\ statusStart = NoStart
    /\ \E start \in {now, pollStart, 0} : statusStart' = start
    /\ UNCHANGED <<statusCheck, statusDid, statusResp>>
    /\ UNCHANGED <<now, imageReady, runVars, storeVars, graphVars, auxVars>>
    /\ UNCHANGED <<workflowStore, runs>>

\* A start that defaults to the time the run route began to poll.
StartTimeOfSubmission(start, t) == IF start # 0 THEN start ELSE pollStart

\* body?.start ? Number(body.start) : Date.now()
StartTime(start, t) == IF start # 0 THEN start ELSE t

\* if (Date.now() - startTime > MAX_POLL_MS)
StatusTimedOut(startTime, t) == t - startTime > STATUS_MAX_POLL_MS

\* findResultOnce taking every answered request for a found image.
FoundOnceOnAnyAnswer(byId, full) == byId # "neterr" \/ full # "neterr"

\* findResultOnce: both fetches are wrapped in try/catch.
FoundOnce(byId, full) == byId = "image" \/ full = "image"

DownloadResults == {"neterr", "http_err", "ok"}

\* The answer when a failed download or save is reported as an error.
StatusDoneRespBroken(baseUrl, did) ==
    IF did.download = "ok" /\ did.save = "ok"
    THEN [http |-> 200, status |-> "done", filename |-> ImageFilename,
          proxyUrl |-> ProxyUrlOf(ImageFilename),
          directUrl |-> DirectUrlOf(baseUrl, ImageFilename)]
    ELSE [NoStatusResp EXCEPT !.http = 500, !.status = "error"]

\* The answer of a status call that found the image, whatever the download
\* and the save came to.
StatusDoneResp(baseUrl, did) ==
    [http |-> 200, status |-> "done", filename |-> ImageFilename,
     proxyUrl |-> ProxyUrlOf(ImageFilename),
     directUrl |-> DirectUrlOf(baseUrl, ImageFilename)]

\* The status call answers and leaves the store alone.
StatusAnswers(resp, did) ==
    /\ statusResp' = resp
    /\ statusDid' = did
    /\ UNCHANGED storeVars

\* The status call found the image, downloaded it and called
\* saveImageToHistory, which came to `save`; errors are ignored.
StatusSaves(pid, save) ==
    LET did == [found |-> TRUE, download |-> "ok", save |-> save]
        saved == saveImageToHistory(
                     [history |-> history, outputs |-> outputs],
                     "uuid-" \o ToStr(uuids + 1), now, ImageFilename,
                     [promptId |-> pid, workflowId |-> req.workflowId,
                      workflowName |-> FindWorkflow(req.workflowId).name,
                      positivePrompt |-> req.positivePrompt,
                      negativePrompt |-> req.negativePrompt,
                      seed |-> req.seed, steps |-> req.steps,
                      inputFilename |->
                          IF req.image THEN "input.png" ELSE ""],
                     save)
    IN /\ uuids < MaxRecords
       /\ statusResp' = StatusDoneResp(req.baseUrl, did)
       /\ statusDid' = did
       /\ history' = saved.history
       /\ outputs' = saved.outputs
       /\ uuids' = uuids + 1

\* One call of the status route with the body the caller sends.
StatusCall ==
    /\ statusStart # NoStart
    /\ \E pid \in {promptId, ""} :
          IF pid = ""
          THEN /\ StatusAnswers(
                      [NoStatusResp EXCEPT !.http = 400, !.status = "error"],
                      NothingDone)
               /\ statusCheck' = NoCheck
          ELSE /\ statusCheck' =
                     [start |-> StartTime(statusStart, now), at |-> now,
                      poll |-> ~StatusTimedOut(StartTime(statusStart, now), now)]
               /\ IF StatusTimedOut(StartTime(statusStart, now), now)
                  THEN StatusAnswers(
                           [NoStatusResp EXCEPT !.http = 504,
                                                !.status = "timeout"],
                           NothingDone)
                  ELSE \E byId \in PollResults, full \in PollResults :
                          IF ~FoundOnce(byId, full)
                          THEN StatusAnswers(
                                   [NoStatusResp EXCEPT !.http = 200,
                                                        !.status = "pending"],
                                   NothingDone)
                          ELSE \E download \in DownloadResults :
                                  IF download # "ok"
                                  THEN StatusAnswers(
                                           StatusDoneResp(req.baseUrl,
                                               [found |-> TRUE,
                                                download |-> download,
                                                save |-> "none"]),
                                           [found |-> TRUE,
                                            download |-> download,
                                            save |-> "none"])
                                  ELSE \E save \in SaveResults :
                                          StatusSaves(pid, save)
    /\ UNCHANGED statusStart
    /\ UNCHANGED <<now, imageReady, runVars, graphVars, auxVars>>
    /\ UNCHANGED <<workflowStore, runs>>

Next ==
    \/ ReceiveRun
    \/ UploadReturns
    \/ SubmitReturns
    \/ LoopCheck
    \/ HistoryByIdReturns
    \/ FullHistoryReturns
    \/ Wake
    \/ BackendFinish
    \/ Tick
    \/ BeginStatus
    \/ StatusCall

Spec == Init /\ [][Next]_vars

(***************************************************************************)
(* The run route alone, runs one after the other: the route answers, the   *)
(* next request comes.  The status route does not read the workflow store. *)
(***************************************************************************)
\* The route has answered; the handler is entered again for a new request,
\* whose job the backend has not rendered yet.
NextRequest ==
    /\ runPc = "responded"
    /\ runs < MaxRuns
    /\ runs' = runs + 1
    /\ runPc' = "idle"
    /\ req' = NoReq
    /\ submitted' = EmptyJob
    /\ promptId' = ""
    /\ pollStart' = 0
    /\ wakeAt' = 0
    /\ loopCheck' = NoCheck
    /\ runResp' = NoResp
    /\ imageReady' = FALSE
    /\ UNCHANGED <<now, statusVars, storeVars, graphVars, workflowStore, saves,
                   extractVars, apiVars, dash>>

NextRuns ==
    \/ ReceiveRun
    \/ UploadReturns
    \/ SubmitReturns
    \/ LoopCheck
    \/ HistoryByIdReturns
    \/ FullHistoryReturns
    \/ Wake
    \/ BackendFinish
    \/ Tick
    \/ NextRequest

SpecRuns == Init /\ [][NextRuns]_vars

(***************************************************************************)
(* The session gate: lib/auth.ts.                                          *)
(***************************************************************************)
\* createHmac("sha256", secret).update(SESSION_KEY).digest("hex")
SessionToken == "hmac-a"

\* The cookie of a request: none, another value of the token's length, a
\* value of another length, the token.
Cookies == {"", "hmac-b", "guess", SessionToken}

\* verifySessionToken: timingSafeEqual throws on buffers of different
\* lengths, which is caught.
verifySessionToken(token) ==
    /\ token # ""
    /\ Len(token) = Len(SessionToken)
    /\ token = SessionToken

\* A gate that lets every request with a session cookie pass.
readIsAuthenticatedByPresence(cookie) == cookie # ""

\* readIsAuthenticated: the value of the session cookie is verified.
readIsAuthenticated(cookie) == verifySessionToken(cookie)

(***************************************************************************)
(* lib/workflows.ts and the import of app/api/workflows/route.ts.          *)
(***************************************************************************)
\* A field the uploaded JSON does not have.
Missing == "<missing>"

\* JavaScript truthiness of an optional string field.
Truthy(s) == s # Missing /\ s # ""

\* The graph of an uploaded workflow.
ImportedNodes == <<NodeOfShape(1, "encode")>>

\* The entries an uploaded file can hold (no title, no raw, no summary).
ImportItems ==
    {[id |-> id, name |-> name, nodes |-> ImportedNodes, links |-> <<>>] :
        id \in {Missing, "", "wf1", "wf1-1"}, name \in {Missing, "Copy"}}

ImportLists ==
    UNION {[1..n -> ImportItems] : n \in 0..MaxImportEntries}

\* The file field of the form: none, text that is no JSON, a JSON array, an
\* object with a workflows array, one workflow object, a JSON number.
ImportFiles ==
    {[kind |-> "none", items |-> <<>>], [kind |-> "garbage", items |-> <<>>],
     [kind |-> "scalar", items |-> <<>>]}
        \cup {[kind |-> "array", items |-> l] : l \in ImportLists}
        \cup {[kind |-> "wrapped", items |-> <<i>>] : i \in ImportItems}
        \cup {[kind |-> "single", items |-> <<i>>] : i \in ImportItems}

\* normalizeBaseList
normalizeBaseList(payload) ==
    IF payload.kind \in {"array", "wrapped", "single"} THEN payload.items
    ELSE <<>>

\* normalizeWorkflows: id = item.id ?? item.name ?? `workflow-${n}-${now}`,
\* name = item.name || item.id || `Workflow ${n}`, raw = the entry.
normalizeWorkflows(list, t) ==
    [i \in 1..Len(list) |->
        [id |-> IF list[i].id # Missing THEN list[i].id
                ELSE IF list[i].name # Missing THEN list[i].name
                ELSE "workflow-" \o ToString(i) \o "-" \o ToString(t),
         name |-> IF Truthy(list[i].name) THEN list[i].name
                  ELSE IF Truthy(list[i].id) THEN list[i].id
                  ELSE "Workflow " \o ToString(i),
         nodes |-> list[i].nodes,
         links |-> list[i].links]]

\* The entries of seq whose index satisfies keep, in order.
RECURSIVE KeepIndexed(_, _, _)
KeepIndexed(seq, keep(_), i) ==
    IF i > Len(seq) THEN <<>>
    ELSE (IF keep(i) THEN <<seq[i]>> ELSE <<>>)
             \o KeepIndexed(seq, keep, i + 1)

\* normalizeWorkflows(parsed).filter((wf, index, self) => wf.id && wf.name
\*     && self.findIndex((item) => item.id === wf.id) === index)
uploadedWorkflows(payload, t) ==
    LET self == normalizeWorkflows(normalizeBaseList(payload), t)
        keep(i) == /\ self[i].id # ""
                   /\ self[i].name # ""
                   /\ \A j \in 1..(i - 1) : self[j].id # self[i].id
    IN KeepIndexed(self, keep, 1)

WorkflowIds(store) == {store[i].id : i \in 1..Len(store)}

\* Map.set: the entry of a key already present is replaced in place, a new
\* key is appended.
MapSet(map, wf) ==
    IF wf.id \in WorkflowIds(map)
    THEN [i \in 1..Len(map) |-> IF map[i].id = wf.id THEN wf ELSE map[i]]
    ELSE Append(map, wf)

\* while (mergedMap.has(candidateId)) candidateId = `${wf.id}-${counter++}`
RECURSIVE SuffixedId(_, _, _)
SuffixedId(ids, id, counter) ==
    IF (id \o "-" \o ToString(counter)) \notin ids
    THEN id \o "-" \o ToString(counter)
    ELSE SuffixedId(ids, id, counter + 1)

\* An import that stores every workflow under its own id.
CandidateIdOverwriting(ids, id) == id

CandidateId(ids, id) == IF id \notin ids THEN id ELSE SuffixedId(ids, id, 1)

RECURSIVE MapSetAll(_, _)
MapSetAll(map, list) ==
    IF list = <<>> THEN map
    ELSE MapSetAll(MapSet(map, Head(list)), Tail(list))

\* workflows.forEach: each is set under the first free candidate id.
RECURSIVE MergeWorkflows(_, _)
MergeWorkflows(map, workflows) ==
    IF workflows = <<>> THEN map
    ELSE LET wf == Head(workflows)
         IN MergeWorkflows(
                MapSet(map, [wf EXCEPT !.id = CandidateId(WorkflowIds(map), wf.id)]),
                Tail(workflows))

\* The store after a successful import: existing first, then the upload.
importWorkflows(store, payload, t) ==
    MergeWorkflows(MapSetAll(<<>>, normalizeWorkflows(store, t)),
                   uploadedWorkflows(payload, t))

(***************************************************************************)
(* The HTTP endpoints, one request after the other.                        *)
(***************************************************************************)
ApiReq(endpoint, cookie, file, id, name) ==
    [endpoint |-> endpoint, cookie |-> cookie, file |-> file, id |-> id,
     name |-> name]

NoFile == [kind |-> "none", items |-> <<>>]

\* The handler answers without touching a store or the backend.
ApiAnswers(http) ==
    /\ apiResp' = http
    /\ backendSent' = {}
    /\ UNCHANGED <<workflowStore, storeVars>>

ApiRest == <<now, imageReady, runVars, statusVars, graphVars, runs, saves,
             extractVars, dash>>

\* POST /api/workflows
WorkflowsPost ==
    /\ apiCalls < MaxApiCalls
    /\ apiCalls' = apiCalls + 1
    /\ \E cookie \in Cookies, file \in ImportFiles :
          /\ apiReq' = ApiReq("workflows.POST", cookie, file, "", "")
          /\ IF ~readIsAuthenticated(cookie) THEN ApiAnswers(401)
             ELSE IF file.kind \in {"none", "garbage"} THEN ApiAnswers(400)
             ELSE IF uploadedWorkflows(file, now) = <<>> THEN ApiAnswers(400)
             ELSE \E disk \in {"ok", "fail"} :
                     IF disk = "fail" THEN ApiAnswers(500)
                     ELSE /\ workflowStore' =
                                 importWorkflows(workflowStore, file, now)
                          /\ apiResp' = 200
                          /\ backendSent' = {}
                          /\ UNCHANGED storeVars
    /\ UNCHANGED ApiRest

\* GET /api/workflows
WorkflowsGet ==
    /\ apiCalls < MaxApiCalls
    /\ apiCalls' = apiCalls + 1
    /\ \E cookie \in Cookies :
          /\ apiReq' = ApiReq("workflows.GET", cookie, NoFile, "", "")
          /\ IF ~readIsAuthenticated(cookie) THEN ApiAnswers(401)
             ELSE ApiAnswers(200)
    /\ UNCHANGED ApiRest

\* PATCH /api/workflows: rename.
WorkflowsPatch ==
    /\ apiCalls < MaxApiCalls
    /\ apiCalls' = apiCalls + 1
    /\ \E cookie \in Cookies, id \in {"", "wf1", "ghost"},
          name \in {"", "Renamed"} :
          /\ apiReq' = ApiReq("workflows.PATCH", cookie, NoFile, id, name)
          /\ IF ~readIsAuthenticated(cookie) THEN ApiAnswers(401)
             ELSE IF id = "" \/ name = "" THEN ApiAnswers(400)
             ELSE /\ workflowStore' =
                         [i \in 1..Len(workflowStore) |->
                             IF workflowStore[i].id = id
                             THEN [workflowStore[i] EXCEPT !.name = name]
                             ELSE workflowStore[i]]
                  /\ apiResp' = 200
                  /\ backendSent' = {}
                  /\ UNCHANGED storeVars
    /\ UNCHANGED ApiRest

\* DELETE /api/workflows?id=
WorkflowsDelete ==
    /\ apiCalls < MaxApiCalls
    /\ apiCalls' = apiCalls + 1
    /\ \E cookie \in Cookies, id \in {"", "wf1", "ghost"} :
          /\ apiReq' = ApiReq("workflows.DELETE", cookie, NoFile, id, "")
          /\ IF ~readIsAuthenticated(cookie) THEN ApiAnswers(401)
             ELSE IF id = "" THEN ApiAnswers(400)
             ELSE /\ workflowStore' =
                         SelectSeq(workflowStore, LAMBDA wf : wf.id # id)
                  /\ apiResp' = 200
                  /\ backendSent' = {}
                  /\ UNCHANGED storeVars
    /\ UNCHANGED ApiRest

HistoryIds == {"", "uuid-1", "ghost"}

\* GET /api/history[?id=]
HistoryGet ==
    /\ apiCalls < MaxApiCalls
    /\ apiCalls' = apiCalls + 1
    /\ \E cookie \in Cookies, id \in HistoryIds :
          /\ apiReq' = ApiReq("history.GET", cookie, NoFile, id, "")
          /\ IF ~readIsAuthenticated(cookie) THEN ApiAnswers(401)
             ELSE IF id # "" /\ \A i \in 1..Len(history) : history[i].id # id
             THEN ApiAnswers(404)
             ELSE ApiAnswers(200)
    /\ UNCHANGED ApiRest

\* The index of the first record with that id (0: none).
FindIndex(items, id) ==
    IF \E i \in 1..Len(items) : items[i].id = id
    THEN CHOOSE i \in 1..Len(items) :
             /\ items[i].id = id
             /\ \A j \in 1..(i - 1) : items[j].id # id
    ELSE 0

\* DELETE /api/history?id=: deleteHistoryItem splices the record out, writes
\* history.json and removes the artifact file.
HistoryDelete ==
    /\ apiCalls < MaxApiCalls
    /\ apiCalls' = apiCalls + 1
    /\ \E cookie \in Cookies, id \in HistoryIds :
          /\ apiReq' = ApiReq("history.DELETE", cookie, NoFile, id, "")
          /\ IF ~readIsAuthenticated(cookie) THEN ApiAnswers(401)
             ELSE IF id = "" THEN ApiAnswers(400)
             ELSE IF FindIndex(history, id) = 0 THEN ApiAnswers(404)
             ELSE LET idx == FindIndex(history, id)
                  IN /\ history' =
                            SubSeq(history, 1, idx - 1)
                                \o SubSeq(history, idx + 1, Len(history))
                     /\ outputs' = outputs \ {history[idx].storedFilename}
                     /\ apiResp' = 200
                     /\ backendSent' = {}
                     /\ UNCHANGED <<uuids, workflowStore>>
    /\ UNCHANGED ApiRest

\* What the run route's poll loop can come to.
RunPollResults == {"Done", "TimedOut", "Failed"}

\* The backend endpoints a run that passed its checks sends requests to.
RunSends(r, upload, submit) ==
    (IF r.image THEN {"/upload/image"} ELSE {})
        \cup (IF r.image /\ upload \in {"neterr", "http_err", "unparseable"}
              THEN {}
              ELSE {"/prompt"}
                       \cup (IF submit = "ok" THEN {"/history"} ELSE {}))

\* The status the run route answers with.
RunStatus(r, upload, submit, poll) ==
    IF r.image /\ upload \in {"neterr", "http_err", "unparseable"} THEN 500
    ELSE IF submit = "http_err" THEN 400
    ELSE IF submit # "ok" THEN 500
    ELSE IF poll = "Done" THEN 200
    ELSE IF poll = "TimedOut" THEN 502
    ELSE 500

\* POST /api/run, the whole request: the route writes to no store.
ApiRun ==
    /\ apiCalls < MaxApiCalls
    /\ apiCalls' = apiCalls + 1
    /\ \E cookie \in Cookies, r \in RunForms :
          /\ apiReq' = ApiReq("run", cookie, NoFile, r.workflowId, "")
          /\ IF ~readIsAuthenticated(cookie) THEN ApiAnswers(401)
             ELSE IF r.workflowId = "" \/ r.baseUrl = "" THEN ApiAnswers(400)
             ELSE IF r.workflowId \notin WorkflowIds(workflowStore)
             THEN ApiAnswers(404)
             ELSE \E upload \in UploadResults, submit \in SubmitResults,
                     poll \in RunPollResults :
                     /\ apiResp' = RunStatus(r, upload, submit, poll)
                     /\ backendSent' = RunSends(r, upload, submit)
                     /\ workflowStore' =
                            IF "/prompt" \in RunSends(r, upload, submit)
                            THEN WorkflowsAfterRun(
                                     workflowStore, r,
                                     IF r.image THEN UploadedName(upload)
                                     ELSE "")
                            ELSE workflowStore
                     /\ UNCHANGED storeVars
    /\ UNCHANGED ApiRest

\* The start field of a status body: none, the time of the call, a time more
\* than MAX_POLL_MS back.
StatusStarts == {0, now, now - STATUS_MAX_POLL_MS - 1}

\* POST /api/run/status, the whole request.
ApiStatus ==
    /\ apiCalls < MaxApiCalls
    /\ apiCalls' = apiCalls + 1
    /\ \E cookie \in Cookies, pid \in {"", "job-1"}, start \in StatusStarts :
          /\ apiReq' = ApiReq("status", cookie, NoFile, pid, "")
          /\ IF ~readIsAuthenticated(cookie)
             THEN ApiAnswers(401) /\ statusDid' = NothingDone
             ELSE IF pid = ""
             THEN ApiAnswers(400) /\ statusDid' = NothingDone
             ELSE IF StatusTimedOut(StartTime(start, now), now)
             THEN ApiAnswers(504) /\ statusDid' = NothingDone
             ELSE \E byId \in PollResults, full \in PollResults :
                     /\ apiResp' = 200
                     /\ UNCHANGED workflowStore
                     /\ IF ~FoundOnce(byId, full)
                        THEN /\ backendSent' = {"/history"}
                             /\ statusDid' = NothingDone
                             /\ UNCHANGED storeVars
                        ELSE /\ backendSent' = {"/history", "/view"}
                             /\ \E download \in DownloadResults :
                                   IF download # "ok"
                                   THEN /\ statusDid' =
                                             [found |-> TRUE,
                                              download |-> download,
                                              save |-> "none"]
                                        /\ UNCHANGED storeVars
                                   ELSE \E save \in SaveResults :
                                           LET saved ==
                                                 saveImageToHistory(
                                                     [history |-> history,
                                                      outputs |-> outputs],
                                                     "uuid-" \o ToStr(uuids + 1),
                                                     now, ImageFilename,
                                                     [promptId |-> pid,
                                                      workflowId |-> "wf1"],
                                                     save)
                                           IN /\ statusDid' =
                                                    [found |-> TRUE,
                                                     download |-> "ok",
                                                     save |-> save]
                                              /\ history' = saved.history
                                              /\ outputs' = saved.outputs
                                              /\ uuids' = uuids + 1
    /\ UNCHANGED <<statusStart, statusCheck, statusResp>>
    /\ UNCHANGED <<now, imageReady, runVars, graphVars, runs, saves,
                   extractVars, dash>>

\* The backend finishes the job the caller of the status route asks for.
JobRenders ==
    /\ ~imageReady
    /\ imageReady' = TRUE
    /\ UNCHANGED <<now, runVars, statusVars, storeVars, graphVars,
                   workflowStore, runs, saves, extractVars, apiVars, dash>>

NextApi ==
    \/ ApiRun
    \/ ApiStatus
    \/ WorkflowsGet
    \/ WorkflowsPost
    \/ WorkflowsPatch
    \/ WorkflowsDelete
    \/ HistoryGet
    \/ HistoryDelete
    \/ JobRenders

SpecApi == Init /\ [][NextApi]_vars

(***************************************************************************)
(* The dashboard page.  pollTimer is the ref holding the id of the last    *)
(* timer set (it keeps the id after the timer fired); timers are the       *)
(* timers set and neither fired nor cleared; polls and runFetches count    *)
(* the fetches of /api/run/status and /api/run not answered yet.           *)
(***************************************************************************)
dashRest ==
    <<now, imageReady, runVars, statusVars, storeVars, graphVars,
      workflowStore, runs, saves, extractVars, apiVars>>

stopPolling(d) ==
    [d EXCEPT !.timers = IF d.pollTimer # 0 THEN @ \ {d.pollTimer} ELSE @,
              !.pollTimer = 0,
              !.isRunning = FALSE]

\* pollTimer.current = setTimeout(() => pollStatus(...), delay)
SchedulePoll(d) ==
    [d EXCEPT !.timerSeq = @ + 1,
              !.timers = @ \cup {d.timerSeq + 1},
              !.pollTimer = d.timerSeq + 1]

\* The disabled attribute of the Run button.
RunDisabledNever(d) == FALSE

RunDisabled(d) ==
    \/ d.isRunning
    \/ d.selectedWorkflow = ""
    \/ d.apiBase = ""
    \/ Len(workflowStore) = 0

\* handleRun up to its first await.
handleRun(d) ==
    LET s == stopPolling(d) IN
    IF s.selectedWorkflow = ""
    THEN [s EXCEPT !.runError = "Select a workflow to run."]
    ELSE IF s.apiBase = ""
    THEN [s EXCEPT !.runError = "Set your ComfyUI API URL first."]
    ELSE [s EXCEPT !.isRunning = TRUE,
                   !.runError = "",
                   !.runResult = FALSE,
                   !.runFetches = @ + 1]

\* What /api/run answers: a job id, an error status, a body without promptId.
DashRunAnswers == {"ok", "error", "noPromptId"}

\* handleRun after the fetch of /api/run returned.
handleRunAnswered(d, answer) ==
    LET r == [d EXCEPT !.runFetches = @ - 1] IN
    IF answer = "ok"
    THEN SchedulePoll([r EXCEPT !.isRunning = TRUE])
    ELSE [r EXCEPT !.runError = IF answer = "error"
                                THEN "Workflow run failed."
                                ELSE "ComfyUI did not return a prompt id.",
                   !.isRunning = FALSE]

\* What /api/run/status answers: pending, done with an image, 504 timeout,
\* any other failure.
DashStatusAnswers == {"pending", "done", "timeout", "error"}

\* pollStatus after the fetch of /api/run/status returned.
pollStatusAnswered(d, answer) ==
    LET r == [d EXCEPT !.polls = @ - 1, !.lastStatus = answer] IN
    IF answer = "pending" THEN SchedulePoll(r)
    ELSE IF answer = "done"
    THEN stopPolling([r EXCEPT !.runResult = TRUE, !.runError = ""])
    ELSE stopPolling([r EXCEPT !.runError = answer])

DashSelectWorkflow ==
    /\ \E value \in {"", "wf1"} :
          /\ value # dash.selectedWorkflow
          /\ dash' = [dash EXCEPT !.selectedWorkflow = value]
    /\ UNCHANGED dashRest

DashSetApiBase ==
    /\ \E value \in {"", "http://comfy"} :
          /\ value # dash.apiBase
          /\ dash' = [dash EXCEPT !.apiBase = value]
    /\ UNCHANGED dashRest

\* A click on the Run button.
DashClickRun ==
    /\ ~RunDisabled(dash)
    /\ dash.timerSeq < MaxTimers
    /\ dash' = handleRun(dash)
    /\ UNCHANGED dashRest

DashRunResponds ==
    /\ dash.runFetches > 0
    /\ \E answer \in DashRunAnswers : dash' = handleRunAnswered(dash, answer)
    /\ UNCHANGED dashRest

\* A timer fires and pollStatus sends its fetch.
DashTimerFires ==
    /\ \E id \in dash.timers :
          dash' = [dash EXCEPT !.timers = @ \ {id}, !.polls = @ + 1]
    /\ UNCHANGED dashRest

DashStatusResponds ==
    /\ dash.polls > 0
    /\ \E answer \in DashStatusAnswers :
          /\ answer = "pending" => dash.timerSeq < MaxTimers
          /\ dash' = pollStatusAnswered(dash, answer)
    /\ UNCHANGED dashRest

NextDash ==
    \/ DashSelectWorkflow
    \/ DashSetApiBase
    \/ DashClickRun
    \/ DashRunResponds
    \/ DashTimerFires
    \/ DashStatusResponds

SpecDash == Init /\ [][NextDash]_vars

(***************************************************************************)
(* saveImageToHistory step by step: concurrent calls interleave at every   *)
(* await (writeFile, readHistory, persistHistory).                         *)
(***************************************************************************)
\* What a step of saveImageToHistory leaves alone.
storeRestVars ==
    <<now, imageReady, runVars, statusVars, graphVars, workflowStore, runs,
      extractVars, apiVars, dash>>

SaveFilenames == {ImageFilename, ""}
SaveJobs == {"job-1", "job-2"}

\* const id = randomUUID(); const storedFilename = `${Date.now()}-...`
SaveBegins(c) ==
    /\ saves[c].pc = "idle"
    /\ \E orig \in SaveFilenames, pid \in SaveJobs :
          saves' = [saves EXCEPT ![c] =
              [pc |-> "write",
               id |-> "uuid-" \o ToStr(uuids + 1),
               originalFilename |-> orig,
               storedFilename |->
                   StoredFilename(now, orig, "uuid-" \o ToStr(uuids + 1)),
               createdAt |-> 0,
               read |-> <<>>,
               opts |-> [promptId |-> pid, workflowId |-> "wf1"]]]
    /\ uuids' = uuids + 1
    /\ UNCHANGED <<history, outputs>>
    /\ UNCHANGED storeRestVars

\* await writeFile(outPath, buffer): the file is written, or the call throws.
SaveWritesFile(c) ==
    /\ saves[c].pc = "write"
    /\ \/ /\ outputs' = outputs \cup {saves[c].storedFilename}
          /\ saves' = [saves EXCEPT ![c].pc = "read", ![c].createdAt = now]
       \/ /\ saves' = [saves EXCEPT ![c].pc = "threw"]
          /\ UNCHANGED outputs
    /\ UNCHANGED <<history, uuids>>
    /\ UNCHANGED storeRestVars

\* const history = await readHistory(), or the call throws.
SaveReadsHistory(c) ==
    /\ saves[c].pc = "read"
    /\ \/ saves' = [saves EXCEPT ![c].pc = "persist", ![c].read = history]
       \/ saves' = [saves EXCEPT ![c].pc = "threw"]
    /\ UNCHANGED storeVars
    /\ UNCHANGED storeRestVars

\* history.unshift(item); await persistHistory(history), or the call throws.
SavePersists(c) ==
    /\ saves[c].pc = "persist"
    /\ \/ /\ history' =
                <<[HistoryItem(saves[c].id, saves[c].createdAt,
                               saves[c].originalFilename, saves[c].opts)
                   EXCEPT !.storedFilename = saves[c].storedFilename]>>
                    \o saves[c].read
          /\ saves' = [saves EXCEPT ![c].pc = "returned"]
       \/ /\ saves' = [saves EXCEPT ![c].pc = "threw"]
          /\ UNCHANGED history
    /\ UNCHANGED <<outputs, uuids>>
    /\ UNCHANGED storeRestVars

\* A millisecond passes.
StoreTick ==
    /\ now - NowInit < MaxStoreTicks
    /\ now' = now + 1
    /\ UNCHANGED <<saves, storeVars>>
    /\ UNCHANGED <<imageReady, runVars, statusVars, graphVars, workflowStore,
                   runs, extractVars, apiVars, dash>>

NextStore ==
    \/ \E c \in 1..MaxSavers : SaveBegins(c)
    \/ \E c \in 1..MaxSavers : SaveWritesFile(c)
    \/ \E c \in 1..MaxSavers : SaveReadsHistory(c)
    \/ \E c \in 1..MaxSavers : SavePersists(c)
    \/ StoreTick

SpecStore == Init /\ [][NextStore]_vars

(***************************************************************************)
(* extractImageFromBody, as the run route and as the status route have it. *)
(***************************************************************************)
Image(f) == [filename |-> f, subfolder |-> "", type |-> "output"]

\* {n: {images: [...]}, ...}: the images lists of the node-output groups.
Field(groups) == [present |-> TRUE, groups |-> groups]

\* The entries of the model; f is the filename of the one image that has one.
EntryShapes ==
    {"outputs", "output", "data", "emptyOutputs", "secondImage",
     "secondGroup", "null"}

EntryOfShape(shape, f) ==
    CASE shape = "outputs" ->
             [NoEntry EXCEPT !.outputs = Field(<<(<<Image(f)>>)>>)]
      [] shape = "output" ->
             [NoEntry EXCEPT !.output = Field(<<(<<Image(f)>>)>>)]
      [] shape = "data" ->
             [NoEntry EXCEPT !.data = Field(<<(<<Image(f)>>)>>)]
      [] shape = "emptyOutputs" ->
             [NoEntry EXCEPT !.outputs = Field(<<>>),
                             !.output = Field(<<(<<Image(f)>>)>>)]
      [] shape = "secondImage" ->
             [NoEntry EXCEPT !.outputs = Field(<<(<<Image(""), Image(f)>>)>>)]
      [] shape = "secondGroup" ->
             [NoEntry EXCEPT !.outputs = Field(<<(<<>>), <<Image(f)>>>>)]
      [] OTHER -> [NoEntry EXCEPT !.isObject = FALSE]

ExJobs == {"job-1", "job-2"}

\* asRecord[promptId], hist[promptId]: the entry under the key, if any.
HasKey(pairs, job) == \E i \in 1..Len(pairs) : pairs[i].job = job
EntryAt(pairs, job) ==
    pairs[CHOOSE i \in 1..Len(pairs) : pairs[i].job = job].entry

\* Object.values(hist)
ValuesOf(pairs) == [i \in 1..Len(pairs) |-> pairs[i].entry]

\* if (promptId && x[promptId]) candidateEntries.push(x[promptId])
KeyedCandidate(pairs, pid) ==
    IF pid # "" /\ HasKey(pairs, pid) /\ EntryAt(pairs, pid).isObject
    THEN <<EntryAt(pairs, pid)>> ELSE <<>>

\* The candidate entries of the run route's extractImageFromBody.
RunCandidates(body, pid) ==
    (IF body.own.outputs.present THEN <<body.own>> ELSE <<>>)
    \o KeyedCandidate(body.keys, pid)
    \o (IF body.histPresent
        THEN KeyedCandidate(body.hist, pid) \o ValuesOf(body.hist)
        ELSE <<>>)
    \o (IF body.kind = "array" THEN body.elems ELSE <<>>)

\* The candidate entries of the status route's extractImageFromBody.
StatusCandidates(body, pid) ==
    IF pid # ""
    THEN (IF /\ body.own.outputs.present
             /\ (body.prompt_id = "" \/ body.prompt_id = pid)
          THEN <<body.own>> ELSE <<>>)
         \o KeyedCandidate(body.keys, pid)
         \o (IF body.histPresent THEN KeyedCandidate(body.hist, pid)
             ELSE <<>>)
    ELSE (IF body.own.outputs.present THEN <<body.own>> ELSE <<>>)
         \o (IF body.histPresent THEN ValuesOf(body.hist) ELSE <<>>)
         \o (IF body.kind = "array" THEN body.elems ELSE <<>>)

\* entry.outputs || entry.output || entry.data
OutputsOf(entry) ==
    IF entry.outputs.present THEN entry.outputs
    ELSE IF entry.output.present THEN entry.output
    ELSE entry.data

RECURSIVE FirstImage(_, _)
\* for (const nodeOutputs of Object.values(outputs)): images?.[0] with a
\* filename, from the g-th group on.
FirstImage(groups, g) ==
    IF g > Len(groups) THEN NoImage
    ELSE IF Len(groups[g]) > 0 /\ groups[g][1].filename # ""
    THEN [found |-> TRUE, filename |-> groups[g][1].filename,
          subfolder |-> groups[g][1].subfolder, type |-> groups[g][1].type]
    ELSE FirstImage(groups, g + 1)

RECURSIVE ScanCandidates(_, _)
\* for (const entry of candidateEntries), from the i-th candidate on.
ScanCandidates(cands, i) ==
    IF i > Len(cands) THEN NoImage
    ELSE IF /\ cands[i].isObject
            /\ OutputsOf(cands[i]).present
            /\ FirstImage(OutputsOf(cands[i]).groups, 1).found
    THEN FirstImage(OutputsOf(cands[i]).groups, 1)
    ELSE ScanCandidates(cands, i + 1)

\* extractImageFromBody of app/api/run/route.ts
extractImageFromBodyRun(body, pid) ==
    IF body.kind = "null" THEN NoImage
    ELSE ScanCandidates(RunCandidates(body, pid), 1)

\* extractImageFromBody of app/api/run/status/route.ts
extractImageFromBodyStatus(body, pid) ==
    IF body.kind = "null" THEN NoImage
    ELSE ScanCandidates(StatusCandidates(body, pid), 1)

\* The number of entries of the body.
EntriesOf(body) ==
    (IF body.own = NoEntry THEN 0 ELSE 1) + Len(body.keys) + Len(body.hist)
        + Len(body.elems)

exRest ==
    <<now, imageReady, runVars, statusVars, storeVars, graphVars,
      workflowStore, runs, saves, apiVars, dash>>

\* The body is null or not an object.
ExNullBody ==
    /\ expc = "body"
    /\ exBody = EmptyBody
    /\ exBody' = [EmptyBody EXCEPT !.kind = "null"]
    /\ UNCHANGED <<exPid, exRun, exStatus, expc>>
    /\ UNCHANGED exRest

\* The body carries outputs, output or data itself, and maybe a prompt_id.
ExOwnFields ==
    /\ expc = "body"
    /\ exBody.kind = "object"
    /\ exBody.own = NoEntry
    /\ EntriesOf(exBody) < MaxEntries
    /\ \E shape \in EntryShapes \ {"null"}, job \in ExJobs \cup {""} :
          exBody' = [exBody EXCEPT !.own = EntryOfShape(shape, "body.png"),
                                   !.prompt_id = job]
    /\ UNCHANGED <<exPid, exRun, exStatus, expc>>
    /\ UNCHANGED exRest

\* The body has an entry under a job id.
ExKeyedEntry ==
    /\ expc = "body"
    /\ exBody.kind = "object"
    /\ EntriesOf(exBody) < MaxEntries
    /\ \E shape \in EntryShapes, job \in ExJobs :
          /\ ~HasKey(exBody.keys, job)
          /\ exBody' = [exBody EXCEPT !.keys = Append(@,
                 [job |-> job,
                  entry |-> EntryOfShape(shape, job \o "-key.png")])]
    /\ UNCHANGED <<exPid, exRun, exStatus, expc>>
    /\ UNCHANGED exRest

\* The body has a history object with an entry under a job id.
ExHistoryEntry ==
    /\ expc = "body"
    /\ exBody.kind = "object"
    /\ EntriesOf(exBody) < MaxEntries
    /\ \E shape \in EntryShapes, job \in ExJobs :
          /\ ~HasKey(exBody.hist, job)
          /\ exBody' = [exBody EXCEPT !.histPresent = TRUE,
                 !.hist = Append(@,
                     [job |-> job,
                      entry |-> EntryOfShape(shape, job \o "-hist.png")])]
    /\ UNCHANGED <<exPid, exRun, exStatus, expc>>
    /\ UNCHANGED exRest

\* The body is an array of entries.
ExArrayElement ==
    /\ expc = "body"
    /\ exBody.kind \in {"object", "array"}
    /\ exBody.own = NoEntry /\ exBody.keys = <<>> /\ ~exBody.histPresent
    /\ EntriesOf(exBody) < MaxEntries
    /\ \E shape \in EntryShapes :
          exBody' = [exBody EXCEPT !.kind = "array",
                 !.elems = Append(@,
                     EntryOfShape(shape,
                         "elem" \o ToStr(Len(exBody.elems) + 1) \o ".png"))]
    /\ UNCHANGED <<exPid, exRun, exStatus, expc>>
    /\ UNCHANGED exRest

\* Both routes extract from the body, with or without a job id.
Extract ==
    /\ expc = "body"
    /\ \E pid \in {"", "job-1"} :
          /\ exPid' = pid
          /\ exRun' = extractImageFromBodyRun(exBody, pid)
          /\ exStatus' = extractImageFromBodyStatus(exBody, pid)
    /\ expc' = "done"
    /\ UNCHANGED exBody
    /\ UNCHANGED exRest

NextExtract ==
    \/ ExNullBody
    \/ ExOwnFields
    \/ ExKeyedEntry
    \/ ExHistoryEntry
    \/ ExArrayElement
    \/ Extract

SpecExtract == Init /\ [][NextExtract]_vars

(***************************************************************************)
(* Claims on the compiler.                                                 *)
(***************************************************************************)
\* The links that buildPromptGraph resolves: well-formed, to a node of the job.
ResolvedLinks ==
    {i \in 1..Len(gLinks) :
        Len(gLinks[i]) >= 5 /\ ToStr(gLinks[i][4]) \in NodeKeys(gNodes)}

\* Link i is the last one that resolves to its destination input.
LastForInput(i) ==
    \A j \in ResolvedLinks :
        (/\ j > i
         /\ gLinks[j][4] = gLinks[i][4]
         /\ LinkInputName(gNodes, gLinks[j]) = LinkInputName(gNodes, gLinks[i]))
        => FALSE

\* C7: an input of a job node that link resolution set to a reference
\* [sourceNodeId, sourceOutputIndex] still holds that reference in the job
\* description that buildPromptGraph returns; no widget step overwrote it.
C7_LinkInputsKept ==
    gpc = "built" =>
        \A i \in ResolvedLinks :
            LastForInput(i) =>
                LET ins == built[ToStr(gLinks[i][4])].inputs
                    name == LinkInputName(gNodes, gLinks[i])
                IN /\ name \in DOMAIN ins
                   /\ ins[name] = Ref(ToStr(gLinks[i][2]), gLinks[i][3])

\* C7 witness: a link bound the input "text" of a text-encoding node (or the
\* input "seed" of a sampler), which the widget steps would otherwise set.
C7_Witness ==
    /\ gpc = "built"
    /\ \E i \in ResolvedLinks :
          /\ LinkInputName(gNodes, gLinks[i]) \in {"text", "seed"}
          /\ Len(NodeAt(gNodes, ToStr(gLinks[i][4])).widgets_values) > 0
          /\ built[ToStr(gLinks[i][4])].inputs[LinkInputName(gNodes, gLinks[i])].k
                = "ref"

\* C8: every reference [sourceNodeId, sourceOutputIndex] in the returned job
\* description names a sourceNodeId that is a key of the job description.
C8_ReferencesResolve ==
    gpc = "built" =>
        \A key \in DOMAIN built :
            \A name \in DOMAIN built[key].inputs :
                built[key].inputs[name].k = "ref"
                    => built[key].inputs[name].v \in DOMAIN built

IdsOf(nodes) == {nodes[n].id : n \in 1..Len(nodes)}

C1_EndsTimedOut ==
    /\ (runPc = "responded" /\ promptId # "" /\ runResp.outcome # "Done")
          => /\ runResp.outcome = "TimedOut"
             /\ loopCheck.at - loopCheck.start >= MAX_POLL_MS
    /\ (statusCheck # NoCheck
            /\ statusCheck.at - statusCheck.start > STATUS_MAX_POLL_MS)
          => statusResp.status = "timeout"

\* C2: for the same start timestamp and the same current time the loop of
\* the run route and the status call take the same decision: both attempt a
\* poll or both report the timeout.
C2_SameDecision ==
    (/\ loopCheck # NoCheck
     /\ statusCheck # NoCheck
     /\ loopCheck.start = statusCheck.start
     /\ loopCheck.at = statusCheck.at)
        => loopCheck.poll = statusCheck.poll

\* C3: a failed poll attempt is "no image yet" in both variants: no fetch of
\* the loop moves the run to Failed, and a status call that polls answers
\* "pending" or "done".
C3_FailedPollIsNoImageYet ==
    /\ [][(runPc \in {"byId", "full"} => runResp'.outcome # "Failed")]_vars
    /\ [](statusCheck # NoCheck /\ statusCheck.poll
              => statusResp.status \in {"pending", "done"})

\* C4: when a run is Done, in the run route as in the status route, the
\* artifact has been downloaded and saveImageToHistory has been called
\* before the answer.
C4_DoneAfterPersist ==
    /\ runResp.outcome = "Done" => uuids > 0
    /\ statusResp.status = "done"
          => statusDid.download = "ok" /\ statusDid.save # "none"

\* C5: the history store (records and artifact files) changes only in a
\* step of a status call that found an image the backend holds for the run;
\* no step of the run route and no "pending", "timeout" or error answer adds
\* a record or a file.
C5_RecordOnlyWhenFound ==
    [][(history' # history \/ outputs' # outputs) =>
          /\ imageReady
          /\ promptId # ""
          /\ statusDid'.found
          /\ statusResp'.status = "done"
          /\ UNCHANGED runVars]_vars

\* C5 witness: a status call found the image and stored a record with its
\* artifact file.
C5_Witness ==
    /\ Len(history) = 1
    /\ outputs # {}
    /\ statusDid.save = "ok"
    /\ statusResp.status = "done"

\* C6: when the download or the write to the history store fails after an
\* image was found, the status call still answers "done" with the proxy URL
\* and the direct URL.
C6_DoneDespiteSaveFailure ==
    (statusDid.found /\ (statusDid.download # "ok" \/ statusDid.save # "ok"))
        => /\ statusResp.status = "done"
           /\ statusResp.http = 200
           /\ statusResp.proxyUrl = ProxyUrlOf(ImageFilename)
           /\ statusResp.directUrl = DirectUrlOf(req.baseUrl, ImageFilename)

\* C6 witness: the image was downloaded, saveImageToHistory threw, and the
\* answer is "done".
C6_Witness ==
    /\ statusDid.found
    /\ statusDid.download = "ok"
    /\ statusDid.save \in {"write_fail", "read_fail", "persist_fail"}
    /\ statusResp.status = "done"

\* C10: the job posted to the backend carries the seed and the step count of
\* the request as the seed and steps inputs of its sampler node.
C10_SeedAndStepsSubmitted ==
    \A key \in DOMAIN submitted :
        submitted[key].class_type = "KSampler" =>
            LET ins == submitted[key].inputs
            IN /\ "seed" \in DOMAIN ins
               /\ ins["seed"] = Val(req.seed)
               /\ "steps" \in DOMAIN ins
               /\ ins["steps"] = Val(req.steps)

(***************************************************************************)
(* Claims on the history store.                                            *)
(***************************************************************************)
\* C11: any two records of the history store have different ids and
\* different stored artifact filenames.
C11_DistinctIdsAndFiles ==
    \A i \in 1..Len(history) : \A j \in 1..Len(history) :
        i # j => /\ history[i].id # history[j].id
                 /\ history[i].storedFilename # history[j].storedFilename

\* C12: when all concurrent calls of saveImageToHistory have returned, the
\* history store holds the record of each of them.
C12_NoRecordLost ==
    (\A c \in 1..MaxSavers : saves[c].pc = "returned")
        => \A c \in 1..MaxSavers :
              \E i \in 1..Len(history) : history[i].id = saves[c].id

\* C13: the record persisted for a completed run holds the workflow name,
\* the prompts, the seed, the step count and the input filename supplied
\* with the run, next to its id, timestamp, filenames, job id and workflow id.
C13_RecordHoldsRunMetadata ==
    \A i \in 1..Len(history) :
        /\ history[i].promptId = promptId
        /\ history[i].workflowId = req.workflowId
        /\ {"workflowName", "positivePrompt", "negativePrompt", "seed",
            "steps", "inputFilename"} \subseteq DOMAIN history[i]
        /\ history[i].workflowName = FindWorkflow(req.workflowId).name
        /\ history[i].positivePrompt = req.positivePrompt
        /\ history[i].negativePrompt = req.negativePrompt
        /\ history[i].seed = req.seed
        /\ history[i].steps = req.steps

(***************************************************************************)
(* Claims on extractImageFromBody.                                         *)
(***************************************************************************)
\* The filenames of all images of an entry, under any of its fields.
FilesOfField(field) ==
    {field.groups[g][k].filename :
        <<g, k>> \in {<<g, k>> \in (1..Len(field.groups)) \X (1..2) :
                         k <= Len(field.groups[g])}} \ {""}

FilesOfEntry(entry) ==
    FilesOfField(entry.outputs) \cup FilesOfField(entry.output)
        \cup FilesOfField(entry.data)

\* The entries a call with job id pid may take its image from: the body
\* itself when it carries outputs and its job id field is absent or equal,
\* the entry keyed by pid, and the entry keyed by pid under history.
EntriesOfJob(body, pid) ==
    (IF /\ body.own.outputs.present
        /\ (body.prompt_id = "" \/ body.prompt_id = pid)
     THEN <<body.own>> ELSE <<>>)
    \o (IF HasKey(body.keys, pid) THEN <<EntryAt(body.keys, pid)>> ELSE <<>>)
    \o (IF HasKey(body.hist, pid) THEN <<EntryAt(body.hist, pid)>> ELSE <<>>)

\* C14: with a job id, extractImageFromBody of either route returns only an
\* image of the body itself (outputs present, job id field absent or equal)
\* or of the entry keyed by that job id, directly or under history; never
\* one that occurs only in entries of other jobs.
C14_OnlyImagesOfTheJob ==
    (expc = "done" /\ exPid # "") =>
        LET allowed ==
                UNION {FilesOfEntry(EntriesOfJob(exBody, exPid)[i]) :
                          i \in 1..Len(EntriesOfJob(exBody, exPid))}
        IN /\ exRun.found => exRun.filename \in allowed
           /\ exStatus.found => exStatus.filename \in allowed

\* C15: with a job id, both routes return the first image with a filename
\* of the candidates body-with-outputs, entry keyed by the job id, entry
\* keyed by the job id under history, in this order, and null when none of
\* these holds one.
C15_FirstMatchInOrder ==
    (expc = "done" /\ exPid # "") =>
        /\ exRun = ScanCandidates(EntriesOfJob(exBody, exPid), 1)
        /\ exStatus = ScanCandidates(EntriesOfJob(exBody, exPid), 1)

(***************************************************************************)
(* Claims on the compiler, on graphs of pool nodes.                        *)
(***************************************************************************)
\* C16: buildPromptGraph returns a job description for every graph,
\* whatever the shape of its nodes and links; it never throws.
C16_BuildNeverThrows == gpc # "threw"

\* C17: in the compiled graph every widget value of a node is the value of
\* at least one input of its job node.
C17_NoWidgetValueDropped ==
    gpc = "built" =>
        \A i \in 1..Len(gNodes) :
            \A k \in 1..Len(gNodes[i].widgets_values) :
                \E name \in DOMAIN built[NodeKey(gNodes, i)].inputs :
                    built[NodeKey(gNodes, i)].inputs[name]
                        = gNodes[i].widgets_values[k]

\* The sampler inputs with the widget position (from 0) each is read from.
SamplerPositions ==
    {<<"seed", 0>>, <<"steps", 2>>, <<"cfg", 3>>, <<"sampler_name", 4>>,
     <<"scheduler", 5>>, <<"denoise", 6>>}

\* C18: for a KSampler without links and declared slots the inputs seed,
\* steps, cfg, sampler_name, scheduler, denoise, when present, are the widget
\* values at positions 0, 2, 3, 4, 5, 6, whatever the length of the list;
\* the value at position 1 is under none of these names.
C18_SamplerPositions ==
    gpc = "built" =>
        \A i \in 1..Len(gNodes) :
            (gNodes[i].type = "KSampler" /\ gNodes[i].inputs = <<>>) =>
                LET ins == built[NodeKey(gNodes, i)].inputs
                    wv == gNodes[i].widgets_values
                IN \A p \in SamplerPositions :
                      p[1] \in DOMAIN ins =>
                          /\ p[2] + 1 <= Len(wv)
                          /\ ins[p[1]] = wv[p[2] + 1]

\* Node i is a text node: its kind contains "prompt" or "textencode".
IsTextNode(i) ==
    HasPrompt(ToLower(gNodes[i].type)) \/ HasTextEncode(ToLower(gNodes[i].type))

\* The text input of node i is bound by a link or is a declared slot.
TextIsBound(i) ==
    \/ \E s \in 1..Len(gNodes[i].inputs) : gNodes[i].inputs[s].name = "text"
    \/ \E l \in ResolvedLinks :
          /\ ToStr(gLinks[l][4]) = NodeKey(gNodes, i)
          /\ LinkInputName(gNodes, gLinks[l]) = "text"

\* Node i has the text that setPromptTexts("a dog", "blurry") routes to it.
HasRoutedText(i) ==
    LET ins == built[NodeKey(gNodes, i)].inputs
    IN /\ "text" \in DOMAIN ins
       /\ ins["text"] = IF HasNegative(ToLower(gNodes[i].title))
                        THEN Val("blurry") ELSE Val("a dog")

\* C19 as stated: after setPromptTexts and buildPromptGraph every text node
\* whose text input is not bound by a link or declared slot has the negative
\* text when its title contains "negative" and the positive text otherwise.
C19_TextsRoutedAsStated ==
    gpc = "built" =>
        \A i \in 1..Len(gNodes) :
            (IsTextNode(i) /\ ~TextIsBound(i)) => HasRoutedText(i)

\* C19, amended: the same for every text node none of whose declared slots
\* lacks a link field (such a slot consumes the injected first widget value).
C19_TextsRouted ==
    gpc = "built" =>
        \A i \in 1..Len(gNodes) :
            (/\ IsTextNode(i)
             /\ ~TextIsBound(i)
             /\ \A s \in 1..Len(gNodes[i].inputs) :
                   gNodes[i].inputs[s].link # "undefined")
                => HasRoutedText(i)

\* C19 witness: two positive text nodes with no free declared slot, both
\* compiled with the injected positive text.
C19_Witness ==
    /\ gpc = "built"
    /\ Len(gNodes) = 2
    /\ \A i \in 1..2 :
          /\ IsTextNode(i)
          /\ ~TextIsBound(i)
          /\ ~HasNegative(ToLower(gNodes[i].title))
          /\ \A s \in 1..Len(gNodes[i].inputs) :
                gNodes[i].inputs[s].link # "undefined"
          /\ HasRoutedText(i)

(***************************************************************************)
(* Claims on the workflow store.                                           *)
(***************************************************************************)
\* C20: a run works on a clone of the stored workflow: after any sequence of
\* runs, successful or failed, every workflow of the store has the id, the
\* name, the nodes, the links and the widget values it had before the runs.
C20_StoreUnchangedByRuns == workflowStore = StoredWorkflows

\* C20 witness: the last run has been answered; its compiled job carries the
\* injected texts, which the stored workflow does not hold.
C20_Witness ==
    /\ runs = MaxRuns
    /\ runPc = "responded"
    /\ runResp.outcome \in {"Done", "Failed"}
    /\ req.workflowId = "wf1"
    /\ submitted # EmptyJob
    /\ submitted["2"].inputs["text"] = Val("a dog")
    /\ FindWorkflow("wf1").nodes[2].widgets_values # <<Val("a dog")>>
    /\ workflowStore = StoredWorkflows

(***************************************************************************)
(* Claims on the HTTP endpoints.                                           *)
(***************************************************************************)
\* The step is a successful import.
IsImport ==
    /\ apiCalls' # apiCalls
    /\ apiReq'.endpoint = "workflows.POST"
    /\ apiResp' = 200

DistinctWorkflowIds ==
    \A i, j \in 1..Len(workflowStore) :
        workflowStore[i].id = workflowStore[j].id => i = j

\* Every workflow stored before the step is stored after it, unchanged.
ImportKeepsStored ==
    \A i \in 1..Len(workflowStore) :
        \E j \in 1..Len(workflowStore') : workflowStore'[j] = workflowStore[i]

\* The workflow wf of the upload is among the workflows the step added, under
\* its own id when that was free before the step and under that id with a
\* numeric suffix otherwise.
StoredByImport(wf) ==
    \E j \in (Len(workflowStore) + 1)..Len(workflowStore') :
        /\ workflowStore'[j].name = wf.name
        /\ workflowStore'[j].nodes = wf.nodes
        /\ workflowStore'[j].links = wf.links
        /\ IF wf.id \in WorkflowIds(workflowStore)
           THEN \E n \in 1..Len(workflowStore') :
                   workflowStore'[j].id = wf.id \o "-" \o ToString(n)
           ELSE \/ workflowStore'[j].id = wf.id
                \/ \E n \in 1..Len(workflowStore') :
                      workflowStore'[j].id = wf.id \o "-" \o ToString(n)

\* The entries of the upload that carry an id.
EntriesWithId(file) ==
    LET self == normalizeWorkflows(normalizeBaseList(file), now)
    IN {self[i] : i \in {k \in 1..Len(self) : self[k].id # ""}}

C22_GateClosed ==
    [][(apiCalls' # apiCalls /\ apiReq'.cookie # SessionToken) =>
          /\ apiResp' = 401
          /\ backendSent' = {}
          /\ workflowStore' = workflowStore
          /\ history' = history
          /\ outputs' = outputs]_vars

\* C22 witness: a record is stored and a DELETE of it with a cookie that is
\* not the token was answered 401; the record is still there.
C22_Witness ==
    /\ apiReq.endpoint = "history.DELETE"
    /\ apiReq.cookie = "hmac-b"
    /\ apiReq.id = "uuid-1"
    /\ apiResp = 401
    /\ \E i \in 1..Len(history) : history[i].id = "uuid-1"

(***************************************************************************)
(* Claims on the steps of one run request.                                 *)
(***************************************************************************)
PollPcs == {"check", "byId", "full", "sleep"}

\* C23: within one run request no poll is made unless the submit returned a
\* job id; a failed upload ends the run Failed with no job submitted; a
\* failed submit or one without a job id ends the run Failed with no poll;
\* upload and submit are each attempted at most once.
C23_StepsOrderedOnce ==
    [][/\ runPc' \in PollPcs
            => (promptId' # "" /\ runPc \in PollPcs \cup {"submit"})
       /\ (runPc' = "upload" /\ runPc # "upload") => runPc = "idle"
       /\ (runPc' = "submit" /\ runPc # "submit")
            => runPc \in {"idle", "upload"}
       /\ (runPc = "upload" /\ runPc' # "upload")
            => \/ runPc' = "submit"
               \/ /\ runPc' = "responded"
                  /\ runResp'.outcome = "Failed"
                  /\ submitted' = EmptyJob
       /\ (runPc = "submit" /\ runPc' # "submit")
            => \/ runPc' = "check" /\ promptId' # ""
               \/ /\ runPc' = "responded"
                  /\ runResp'.outcome = "Failed"
                  /\ promptId' = ""]_vars

\* C23 witness: after an upload the job was posted, the post failed or its
\* answer held no job id, and the run ended Failed without a poll.
C23_Witness ==
    /\ runPc = "responded"
    /\ req.image
    /\ submitted # EmptyJob
    /\ promptId = ""
    /\ loopCheck = NoCheck
    /\ runResp.outcome = "Failed"
    /\ runResp.http = 500

\* C24: uploadImage fails, and no job is submitted, whenever the upload
\* response has a non-success status or yields no filename, also when it is
\* JSON with neither a name nor a filename field: no job is ever compiled
\* with the name of the client's file, which is all the route has then.
C24_UploadWithoutNameFails ==
    \A key \in DOMAIN submitted :
        (submitted[key].class_type = "LoadImage"
            /\ "image" \in DOMAIN submitted[key].inputs)
            => submitted[key].inputs["image"] # Val(UploadedName("unnamed"))

(***************************************************************************)
(* Claims on stripIgnoredNodes and on the widget values of buildPromptGraph. *)
(***************************************************************************)
\* The step is stripIgnoredNodes.
IsStrip == gpc # "stripped" /\ gpc' = "stripped"

\* gNodes' is gNodes without the nodes whose lower-cased kind is in kinds,
\* the others in their order.
StripsExactly(kinds) ==
    LET keptIdx == {i \in 1..Len(gNodes) : ToLower(gNodes[i].type) \notin kinds}
        pos(i) == Cardinality({k \in keptIdx : k <= i})
    IN /\ Len(gNodes') = Cardinality(keptIdx)
       /\ \A i \in keptIdx : gNodes'[pos(i)] = gNodes[i]

\* C25 as stated: stripIgnoredNodes removes exactly the nodes whose kind,
\* compared case-insensitively, is "note" or "markdown note" and keeps every
\* other node in its relative order.
C25_StripsAsStated == [][IsStrip => StripsExactly({"note", "markdown note"})]_vars

\* C25, amended: the same with the kinds "note" and "markdownnote" (the kind
\* MarkdownNote, written without a space).
C25_StripsNotes == [][IsStrip => StripsExactly({"note", "markdownnote"})]_vars

\* C25 witness: an annotation node before a sampler was stripped, the sampler
\* stays.
C25_Witness ==
    /\ gpc = "stripped"
    /\ Len(gNodes) = 1
    /\ gNodes[1].type = "KSampler"
    /\ gNodes[1].id = 2

\* The declared slots of node i that no link binds: the link field is
\* undefined or null.
FreeSlots(i) ==
    {s \in 1..Len(gNodes[i].inputs) :
        gNodes[i].inputs[s].link \in {"undefined", "null"}}

SlotName(i, s) ==
    IF gNodes[i].inputs[s].name # "" THEN gNodes[i].inputs[s].name
    ELSE ToStr(s - 1)

\* C26: in the job that buildPromptGraph returns, the k-th declared slot of a
\* node that is not bound by a link, a null link field included, holds the
\* node's k-th widget value while values remain.
C26_FreeSlotsConsumeInOrder ==
    gpc = "built" =>
        \A i \in 1..Len(gNodes) :
            \A s \in FreeSlots(i) :
                LET k == Cardinality({t \in FreeSlots(i) : t <= s})
                    ins == built[NodeKey(gNodes, i)].inputs
                IN k <= Len(gNodes[i].widgets_values)
                     => /\ SlotName(i, s) \in DOMAIN ins
                        /\ ins[SlotName(i, s)] = gNodes[i].widgets_values[k]

\* The synthetic input names valueN.
ValueNames == {"value" \o ToStr(n) : n \in 0..(Len(SamplerWidgets) + 1)}

\* C27: in the job that buildPromptGraph returns, a widget value that is held
\* by a named input (set by a declared slot, the per-kind table, the hints or
\* the text fallback) is not held a second time by a synthetic input valueN.
\* The widget values of a node of the model are pairwise different.
C27_NoValueEmittedTwice ==
    gpc = "built" =>
        \A key \in DOMAIN built :
            LET ins == built[key].inputs
            IN \A v \in ValueNames \cap DOMAIN ins :
                   \A name \in DOMAIN ins \ ValueNames :
                       ins[name] # ins[v]

\* C28: in the dashboard at most one status poll is scheduled or in flight,
\* none is while no run is going on, a status response of done, timeout or
\* error leaves no poll scheduled and isRunning false, and a run starts only
\* when no poll of an earlier run is pending.
PendingPolls == Cardinality(dash.timers) + dash.polls

StatusChecked == statusResp.http # 0 /\ statusCheck # NoCheck

C29_TimeoutFromStartAndClock ==
    StatusChecked =>
        /\ statusResp.status = "timeout" <=>
              (statusStart # 0 /\
               statusCheck.at - statusStart > STATUS_MAX_POLL_MS)
        /\ statusStart = 0 => statusResp.status # "timeout"

C29_Witness ==
    /\ StatusChecked
    /\ statusStart = 0
    /\ statusCheck.at - pollStart > STATUS_MAX_POLL_MS
    /\ statusResp.status = "pending"

\* C30: the status call does not look for an earlier record of the job: every
\* status call that finds the image, downloads it and stores it puts a new
\* record with the job's id in front of the records there were, so k such
\* calls for one job leave k records with its id.
IsStatusCall ==
    /\ apiCalls' # apiCalls
    /\ apiReq'.endpoint = "status"
    /\ apiResp' = 200

NewRecordOfJob ==
    /\ Len(history') = Len(history) + 1
    /\ history'[1].promptId = apiReq'.id
    /\ SubSeq(history', 2, Len(history')) = history

\* As stated: every status call that finds the image leaves a new record.
C30_EveryFindAppendsAsStated ==
    [][(IsStatusCall /\ statusDid'.found) => NewRecordOfJob]_vars

C30_EveryStoredFindAppends ==
    [][(IsStatusCall /\ statusDid'.found /\ statusDid'.download = "ok"
            /\ statusDid'.save = "ok") => NewRecordOfJob]_vars

C30_Witness ==
    /\ Len(history) = 2
    /\ history[1].promptId = "job-1"
    /\ history[2].promptId = "job-1"
    /\ history[1].id # history[2].id
    /\ apiReq.endpoint = "status"
====
